---- MODULE Spec2Model ----
(***************************************************************************)
(* State-machine model of the ONVIF client of onvif-cam-rs:                *)
(*   - utils::parse_soap, the streaming XML field/attribute extractor,     *)
(*   - client::send, the SOAP-over-HTTP transport with its retry loop,     *)
(*   - Camera::build_all and the CameraBuilder stages,                     *)
(*   - client::discover, the WS-Discovery probe/collect loop.              *)
(* Strings of the program are TLA+ strings; an XML document is the         *)
(* sequence of events the xml-rs EventReader yields for it.                *)
(***************************************************************************)
EXTENDS Integers, Sequences, FiniteSets, TLC

(***************************************************************************)
(* Bounds of the model.                                                    *)
(***************************************************************************)
\* how many times the caller invokes build_all on the same Camera
MaxBuilds == 2
\* how many datagrams the network may deliver during one discover() call
MaxReplies == 3
\* how many pieces a document handed to parse_soap is made of
MaxPieces == 3
\* how many devices a list handed to file_save holds at most
MaxDevices == 2
\* how many datagrams Client::discover hears at most
MaxHeard == 2
\* how many times the program is started (Client::new is called)
MaxStarts == 2
\* how many type names a Types string handed to parse_device_type lists
MaxTypes == 3
\* how many times Client::send is called on a client
MaxSends == 2
\* how many attributes the Capabilities element of an event service has
MaxAttributes == 2

(***************************************************************************)
(* Strings.                                                                *)
(***************************************************************************)
\* str::contains(pattern)
Contains(s, f) ==
    \E i \in 1..(Len(s) - Len(f) + 1) : SubSeq(s, i, i + Len(f) - 1) = f

\* Option<T>: None is the empty sequence, Some(x) the one-element sequence
None == <<>>
Some(x) == <<x>>
IsSome(o) == o # <<>>

\* url::Url::parse(s) succeeds: s is an absolute URL, "<scheme>://<rest>"
UrlParses(s) ==
    \E i \in 2..(Len(s) - 3) : SubSeq(s, i, i + 2) = "://"

\* the serialisation of a parsed Url: a space of the path is written %20
Url(s) ==
    LET at == SelectSeq([i \in 1..Len(s) |-> i], LAMBDA i : SubSeq(s, i, i) = " ")
        n  == Len(at)
        piece(k) == SubSeq(s, IF k = 1 THEN 1 ELSE at[k - 1] + 1,
                              IF k = n + 1 THEN Len(s) ELSE at[k] - 1)
        join[k \in 1..(n + 1)] ==
            IF k = 1 THEN piece(1) ELSE join[k - 1] \o "%20" \o piece(k)
    IN  join[n + 1]

Digits == {"0", "1", "2", "3", "4", "5", "6", "7", "8", "9"}

DigitVal(c) ==
    CASE c = "0" -> 0 [] c = "1" -> 1 [] c = "2" -> 2 [] c = "3" -> 3
      [] c = "4" -> 4 [] c = "5" -> 5 [] c = "6" -> 6 [] c = "7" -> 7
      [] c = "8" -> 8 [] c = "9" -> 9

RECURSIVE strip_zeros(_)
strip_zeros(s) ==
    IF Len(s) > 1 /\ SubSeq(s, 1, 1) = "0"
    THEN strip_zeros(SubSeq(s, 2, Len(s)))
    ELSE s

\* a <= b for decimal numerals of the same length
NumeralLeq(a, b) ==
    \/ a = b
    \/ \E i \in 1..Len(a) :
          /\ SubSeq(a, 1, i - 1) = SubSeq(b, 1, i - 1)
          /\ DigitVal(SubSeq(a, i, i)) < DigitVal(SubSeq(b, i, i))

\* u32::MAX
U32Max == "4294967295"

\* str::parse::<u32>(): Some(n) for an optional "+" and decimal digits whose
\* value fits 32 bits, else None.  A u32 is kept as its numeral without
\* leading zeros (its value may exceed the integers of the checker).
ParseU32(s) ==
    LET d == IF Len(s) > 0 /\ SubSeq(s, 1, 1) = "+" THEN SubSeq(s, 2, Len(s)) ELSE s
        n == strip_zeros(d)
    IN  IF /\ Len(d) > 0
           /\ \A i \in 1..Len(d) : SubSeq(d, i, i) \in Digits
           /\ \/ Len(n) < Len(U32Max)
              \/ Len(n) = Len(U32Max) /\ NumeralLeq(n, U32Max)
        THEN Some(n)
        ELSE None

\* u16::MAX
U16Max == "65535"

\* str::parse::<u16>(), as ParseU32
ParseU16(s) ==
    LET d == IF Len(s) > 0 /\ SubSeq(s, 1, 1) = "+" THEN SubSeq(s, 2, Len(s)) ELSE s
        n == strip_zeros(d)
    IN  IF /\ Len(d) > 0
           /\ \A i \in 1..Len(d) : SubSeq(d, i, i) \in Digits
           /\ \/ Len(n) < Len(U16Max)
              \/ Len(n) = Len(U16Max) /\ NumeralLeq(n, U16Max)
        THEN Some(n)
        ELSE None


\* u8::MAX
U8Max == "255"

\* str::parse::<u8>(), as ParseU32
ParseU8(s) ==
    LET d == IF Len(s) > 0 /\ SubSeq(s, 1, 1) = "+" THEN SubSeq(s, 2, Len(s)) ELSE s
        n == strip_zeros(d)
    IN  IF /\ Len(d) > 0
           /\ \A i \in 1..Len(d) : SubSeq(d, i, i) \in Digits
           /\ \/ Len(n) < Len(U8Max)
              \/ Len(n) = Len(U8Max) /\ NumeralLeq(n, U8Max)
        THEN Some(n)
        ELSE None

\* str::parse::<bool>(): Some for exactly "true" and "false", else None
ParseBool(s) ==
    IF s = "true" THEN Some(TRUE) ELSE IF s = "false" THEN Some(FALSE) ELSE None

(***************************************************************************)
(* XML documents as the event stream of xml::reader::EventReader.          *)
(***************************************************************************)
StartElement(name, attributes) ==
    [t |-> "StartElement", name |-> name, attributes |-> attributes, chars |-> ""]
EndElement(name) ==
    [t |-> "EndElement", name |-> name, attributes |-> <<>>, chars |-> ""]
Characters(chars) ==
    [t |-> "Characters", name |-> "", attributes |-> <<>>, chars |-> chars]
\* the reader's Err item for a malformed token
XmlError ==
    [t |-> "Err", name |-> "", attributes |-> <<>>, chars |-> ""]
Attribute(name, value) == [name |-> name, value |-> value]

\* <name>text</name>
TextElement(name, text) ==
    <<StartElement(name, <<>>), Characters(text), EndElement(name)>>
\* <name> inner </name>
Element(name, inner) ==
    <<StartElement(name, <<>>)>> \o inner \o <<EndElement(name)>>

\* format!("{}={:?}", &a.name, a.value): the value is printed quoted
FormatAttribute(a) == a.name \o "=" \o "\"" \o a.value \o "\""

\* variant: a malformed token does not end the loop
breaks_never(e) == FALSE

\* the `Err(e) => { eprintln!(..); break; }` arm
breaks(e) == e.t = "Err"

\* variant: the end tag of the parent ends the scope
scope_after_end_closed(parent_found, name, parent) ==
    parent_found /\ (parent = None \/ name # parent[1])

\* the EndElement arm resets element_found only: parent_found stays as it is
scope_after_end(parent_found, name, parent) == parent_found

RECURSIVE parse_loop(_, _, _, _, _, _, _, _, _)
parse_loop(response, i, element_to_find, parent, is_single, is_attributes, element_found, parent_found, result) ==
    IF i > Len(response) THEN result
    ELSE
      LET e == response[i] IN
      CASE e.t = "StartElement" ->
             LET pf == parent_found \/ e.name = parent[1]
                 ef == element_found \/ (pf /\ e.name = element_to_find)
             IN  IF ef /\ e.attributes # <<>> /\ is_attributes
                 THEN [k \in 1..Len(e.attributes) |-> FormatAttribute(e.attributes[k])]
                 ELSE parse_loop(response, i + 1, element_to_find, parent,
                                 is_single, is_attributes, ef, pf, result)
        [] e.t = "EndElement" ->
             parse_loop(response, i + 1, element_to_find, parent, is_single,
                        is_attributes,
                        element_found /\ ~(e.name = element_to_find),
                        scope_after_end(parent_found, e.name, parent), result)
        [] e.t = "Characters" ->
             IF ~is_attributes /\ element_found
             THEN IF is_single
                  THEN Append(result, e.chars)
                  ELSE parse_loop(response, i + 1, element_to_find, parent,
                                  is_single, is_attributes, element_found,
                                  parent_found, Append(result, e.chars))
             ELSE parse_loop(response, i + 1, element_to_find, parent,
                             is_single, is_attributes, element_found,
                             parent_found, result)
        [] breaks(e) -> result
        [] OTHER ->
             parse_loop(response, i + 1, element_to_find, parent, is_single,
                        is_attributes, element_found, parent_found, result)

\* variant: the scan starts as if the parent had been seen
parse_soap_unscoped(response, element_to_find, parent, is_single, is_attributes) ==
    parse_loop(response, 1, element_to_find, parent, is_single, is_attributes,
               FALSE, TRUE, <<>>)

\* utils::parse_soap; parent is an Option<&str>
parse_soap(response, element_to_find, parent, is_single, is_attributes) ==
    parse_loop(response, 1, element_to_find, parent, is_single, is_attributes,
               FALSE, parent = None, <<>>)

(***************************************************************************)
(* Device records (device/mod.rs) and the Camera (device/camera.rs).       *)
(***************************************************************************)
\* #[derive(Default)] of the sub-records: every field None
DefaultCapabilities ==
    [url_media |-> None, url_events |-> None, url_analytics |-> None,
     url_ptz |-> None, url_imaging |-> None]
DefaultDeviceInfo ==
    [firmware_version |-> None, serial_num |-> None, hardware_id |-> None,
     model |-> None, manufacturer |-> None]
DefaultProfiles ==
    [name |-> None, video_dim |-> None, video_codec |-> None,
     audio_codec |-> None, h264_profile |-> None]
DefaultStreamUri ==
    [uri |-> None, timeout |-> None, invalid_connect |-> None]
DefaultServices ==
    [analytics |-> None, event |-> None, io |-> None, imaging |-> None,
     media |-> None, media2 |-> None, ptz |-> None]
DefaultEventCapabilities ==
    [pause_support |-> None, pull_point_supoort |-> None,
     sub_policy_support |-> None, max_notif_produce |-> None,
     max_pull_points |-> None, persist_notif_store |-> None]

\* Camera::new(base)
NewCamera(base) ==
    [base         |-> base,
     capabilities |-> DefaultCapabilities,
     profiles     |-> DefaultProfiles,
     device_info  |-> DefaultDeviceInfo,
     stream       |-> DefaultStreamUri,
     services     |-> DefaultServices,
     event_props  |-> DefaultEventCapabilities]

\* the bare Devices a Camera is created from
BaseDevices ==
    { [url_onvif   |-> "http://cam/onvif/device_service",
       device_type |-> "Camera",
       scopes      |-> <<>>],
      [url_onvif   |-> "http://10.0.0.2:8080/onvif/device_service",
       device_type |-> "Doorbell",
       scopes      |-> <<"onvif://www.onvif.org/type/video_encoder",
                         "onvif://www.onvif.org/name/door">>] }

(***************************************************************************)
(* Results of the fallible functions: Ok(val), Err(err) or a panic.        *)
(***************************************************************************)
Ok(val) == [kind |-> "Ok", val |-> val, err |-> ""]
Err(err) == [kind |-> "Err", val |-> <<>>, err |-> err]
Panic == [kind |-> "Panic", val |-> <<>>, err |-> ""]

\* the error send returns after its retry loop (anyhow!)
ErrNoResponse == "[Client] Error getting response from message"
\* reqwest::Error of a failed connection, surfaced by `resp?`
ErrConnect == "error sending request: connection refused"
\* reqwest::Error of a body that cannot be read, surfaced by `bytes().await?`
ErrBody == "error decoding response body"
\* url::ParseError, surfaced by `parse()?` / `Url::parse(..)?`
ErrUrlParse == "relative URL without a base"

\* the first outcome that is not "Ok" among outcomes evaluated in order
FirstNotOk(os) ==
    IF \A i \in 1..Len(os) : os[i] = "Ok" THEN "Ok"
    ELSE os[CHOOSE i \in 1..Len(os) :
                os[i] # "Ok" /\ \A j \in 1..(i - 1) : os[j] = "Ok"]

\* v.remove(0).parse::<Url>()? : panics on an empty Vec, errs on a non-URL
RemoveParseUrl(v) ==
    IF v = <<>> THEN "Panic" ELSE IF UrlParses(v[1]) THEN "Ok" ELSE "Err"

\* v[0] and v.remove(0): panic on an empty Vec
RemoveFirst(v) == IF v = <<>> THEN "Panic" ELSE "Ok"

(***************************************************************************)
(* The CameraBuilder stages (builder/camera.rs), as functions of the       *)
(* response body.  log_info: whether the info! level is enabled, i.e.      *)
(* whether the arguments of the info! calls are evaluated.                 *)
(***************************************************************************)
set_capabilities(body, log_info) ==
    LET media_service     == parse_soap(body, "XAddr", Some("Media"), TRUE, FALSE)
        event_service     == parse_soap(body, "XAddr", Some("Events"), TRUE, FALSE)
        analytics_service == parse_soap(body, "XAddr", Some("Analytics"), TRUE, FALSE)
        ptz_service       == parse_soap(body, "XAddr", Some("PTZ"), TRUE, FALSE)
        image_service     == parse_soap(body, "XAddr", Some("Imaging"), TRUE, FALSE)
        all == <<media_service, event_service, analytics_service,
                 ptz_service, image_service>>
        logged == IF log_info
                  THEN FirstNotOk([i \in 1..5 |-> RemoveFirst(all[i])])
                  ELSE "Ok"
        parsed == FirstNotOk([i \in 1..5 |-> RemoveParseUrl(all[i])])
    IN  IF logged = "Panic" \/ parsed = "Panic" THEN Panic
        ELSE IF parsed = "Err" THEN Err(ErrUrlParse)
        ELSE Ok([url_media     |-> Some(media_service[1]),
                 url_events    |-> Some(event_service[1]),
                 url_analytics |-> Some(analytics_service[1]),
                 url_ptz       |-> Some(ptz_service[1]),
                 url_imaging   |-> Some(image_service[1])])

set_device_info(body, log_info) ==
    LET firmware_version == parse_soap(body, "FirmwareVersion", None, TRUE, FALSE)
        serial_number    == parse_soap(body, "SerialNumber", None, TRUE, FALSE)
        hardware_id      == parse_soap(body, "HardwareId", None, TRUE, FALSE)
        model            == parse_soap(body, "Model", None, TRUE, FALSE)
        manufacturer     == parse_soap(body, "Manufacturer", None, TRUE, FALSE)
        all == <<firmware_version, serial_number, hardware_id, model, manufacturer>>
    IN  IF FirstNotOk([i \in 1..5 |-> RemoveFirst(all[i])]) = "Panic" THEN Panic
        ELSE Ok([firmware_version |-> Some(firmware_version[1]),
                 serial_num       |-> Some(serial_number[1]),
                 hardware_id      |-> Some(hardware_id[1]),
                 model            |-> Some(model[1]),
                 manufacturer     |-> Some(manufacturer[1])])

\* variant: a response with a Width and no Height stores the width alone
set_profiles_width_alone(body, log_info) ==
    LET width        == parse_soap(body, "Width", None, TRUE, FALSE)
        height       == parse_soap(body, "Height", None, TRUE, FALSE)
        video_codec  == parse_soap(body, "Encoding", Some("VideoEncoderConfiguration"), TRUE, FALSE)
        audio_codec  == parse_soap(body, "Encoding", Some("AudioEncoderConfiguration"), TRUE, FALSE)
        h264_profile == parse_soap(body, "H264Profile", None, TRUE, FALSE)
        all == <<width, video_codec, audio_codec, h264_profile>>
    IN  IF FirstNotOk([i \in 1..4 |-> RemoveFirst(all[i])]) = "Panic" THEN Panic
        ELSE IF ParseU32(width[1]) = None THEN Panic
        ELSE Ok([name         |-> None,
                 video_dim    |-> IF height = <<>> \/ ParseU32(height[1]) = None
                                  THEN Some(<<ParseU32(width[1])[1]>>)
                                  ELSE Some(<<ParseU32(width[1])[1], ParseU32(height[1])[1]>>),
                 video_codec  |-> Some(video_codec[1]),
                 audio_codec  |-> Some(audio_codec[1]),
                 h264_profile |-> Some(h264_profile[1])])

set_profiles(body, log_info) ==
    LET width        == parse_soap(body, "Width", None, TRUE, FALSE)
        height       == parse_soap(body, "Height", None, TRUE, FALSE)
        video_codec  == parse_soap(body, "Encoding", Some("VideoEncoderConfiguration"), TRUE, FALSE)
        audio_codec  == parse_soap(body, "Encoding", Some("AudioEncoderConfiguration"), TRUE, FALSE)
        h264_profile == parse_soap(body, "H264Profile", None, TRUE, FALSE)
        all == <<width, height, video_codec, audio_codec, h264_profile>>
    IN  IF FirstNotOk([i \in 1..5 |-> RemoveFirst(all[i])]) = "Panic" THEN Panic
        \* width[0].parse().unwrap(), height[0].parse().unwrap()
        ELSE IF ParseU32(width[1]) = None \/ ParseU32(height[1]) = None THEN Panic
        ELSE Ok([name         |-> None,
                 video_dim    |-> Some(<<ParseU32(width[1])[1], ParseU32(height[1])[1]>>),
                 video_codec  |-> Some(video_codec[1]),
                 audio_codec  |-> Some(audio_codec[1]),
                 h264_profile |-> Some(h264_profile[1])])

\* variant: a response without Uri still completes the stage
set_stream_uri_without_uri(body, log_info) ==
    LET invalid_after_connect == parse_soap(body, "InvalidAfterConnect", None, TRUE, FALSE)
        timeout               == parse_soap(body, "Timeout", None, TRUE, FALSE)
        url_string            == parse_soap(body, "Uri", None, TRUE, FALSE)
        all == <<invalid_after_connect, timeout>>
    IN  IF FirstNotOk([i \in 1..2 |-> RemoveFirst(all[i])]) = "Panic" THEN Panic
        ELSE Ok([uri             |-> IF url_string = <<>> THEN None
                                     ELSE Some(url_string[1]),
                 timeout         |-> Some(timeout[1]),
                 invalid_connect |-> Some(invalid_after_connect[1])])

set_stream_uri(body, log_info) ==
    LET invalid_after_connect == parse_soap(body, "InvalidAfterConnect", None, TRUE, FALSE)
        timeout               == parse_soap(body, "Timeout", None, TRUE, FALSE)
        url_string            == parse_soap(body, "Uri", None, TRUE, FALSE)
        all == <<url_string, invalid_after_connect, timeout>>
    IN  IF FirstNotOk([i \in 1..3 |-> RemoveFirst(all[i])]) = "Panic" THEN Panic
        ELSE Ok([uri             |-> Some(url_string[1]),
                 timeout         |-> Some(timeout[1]),
                 invalid_connect |-> Some(invalid_after_connect[1])])

\* variant: the arms of analytics and event assign each other's field
classify_service_crossed(result, service) ==
    IF Contains(service, "device_service") THEN result
    ELSE IF Contains(service, "analytics") THEN [result EXCEPT !.event = Some(service)]
    ELSE IF Contains(service, "event") THEN [result EXCEPT !.analytics = Some(service)]
    ELSE IF Contains(service, "deviceIO") THEN [result EXCEPT !.io = Some(service)]
    ELSE IF Contains(service, "imaging") THEN [result EXCEPT !.imaging = Some(service)]
    ELSE IF Contains(service, "media_service") THEN [result EXCEPT !.media = Some(service)]
    ELSE IF Contains(service, "media2") THEN [result EXCEPT !.media2 = Some(service)]
    ELSE IF Contains(service, "ptz") THEN [result EXCEPT !.ptz = Some(service)]
    ELSE result

\* variant: an XAddr that no arm knows clears the record
classify_service_unknown_clears(result, service) ==
    IF Contains(service, "device_service") THEN result
    ELSE IF Contains(service, "analytics") THEN [result EXCEPT !.analytics = Some(service)]
    ELSE IF Contains(service, "event") THEN [result EXCEPT !.event = Some(service)]
    ELSE IF Contains(service, "deviceIO") THEN [result EXCEPT !.io = Some(service)]
    ELSE IF Contains(service, "imaging") THEN [result EXCEPT !.imaging = Some(service)]
    ELSE IF Contains(service, "media_service") THEN [result EXCEPT !.media = Some(service)]
    ELSE IF Contains(service, "media2") THEN [result EXCEPT !.media2 = Some(service)]
    ELSE IF Contains(service, "ptz") THEN [result EXCEPT !.ptz = Some(service)]
    ELSE DefaultServices

\* variant: the arm of the device service is tried last
classify_service_device_last(result, service) ==
    IF Contains(service, "analytics") THEN [result EXCEPT !.analytics = Some(service)]
    ELSE IF Contains(service, "event") THEN [result EXCEPT !.event = Some(service)]
    ELSE IF Contains(service, "deviceIO") THEN [result EXCEPT !.io = Some(service)]
    ELSE IF Contains(service, "imaging") THEN [result EXCEPT !.imaging = Some(service)]
    ELSE IF Contains(service, "media_service") THEN [result EXCEPT !.media = Some(service)]
    ELSE IF Contains(service, "media2") THEN [result EXCEPT !.media2 = Some(service)]
    ELSE IF Contains(service, "ptz") THEN [result EXCEPT !.ptz = Some(service)]
    ELSE result

\* one iteration of the `for service in services` loop: the match on keywords,
\* whose arms are tried in this order and of which the first that fits is taken
classify_service(result, service) ==
    IF Contains(service, "device_service") THEN result
    ELSE IF Contains(service, "analytics") THEN [result EXCEPT !.analytics = Some(service)]
    ELSE IF Contains(service, "event") THEN [result EXCEPT !.event = Some(service)]
    ELSE IF Contains(service, "deviceIO") THEN [result EXCEPT !.io = Some(service)]
    ELSE IF Contains(service, "imaging") THEN [result EXCEPT !.imaging = Some(service)]
    ELSE IF Contains(service, "media_service") THEN [result EXCEPT !.media = Some(service)]
    ELSE IF Contains(service, "media2") THEN [result EXCEPT !.media2 = Some(service)]
    ELSE IF Contains(service, "ptz") THEN [result EXCEPT !.ptz = Some(service)]
    ELSE result

RECURSIVE classify_services(_, _, _)
classify_services(result, services, i) ==
    IF i > Len(services) THEN result
    ELSE classify_services(classify_service(result, services[i]), services, i + 1)

set_services(body, log_info) ==
    LET services == parse_soap(body, "XAddr", None, FALSE, FALSE)
    IN  Ok(classify_services(DefaultServices, services, 1))

\* pull_messages: the response text is only logged
pull_messages(body, log_info) == Ok(<<>>)


RECURSIVE split_from(_, _, _, _)
split_from(s, i, start, acc) ==
    IF i > Len(s) THEN Append(acc, SubSeq(s, start, Len(s)))
    ELSE IF SubSeq(s, i, i) = " "
    THEN split_from(s, i + 1, i + 1, Append(acc, SubSeq(s, start, i - 1)))
    ELSE split_from(s, i + 1, start, acc)

\* str::split(' ') collected into a Vec
split_space(s) == split_from(s, 1, 1, <<>>)

\* str::split_once('='): None without a '=', else the text before and the
\* text after the first one
split_once(s) ==
    LET at == SelectSeq([i \in 1..Len(s) |-> i], LAMBDA i : SubSeq(s, i, i) = "=")
    IN  IF at = <<>> THEN None
        ELSE Some(<<SubSeq(s, 1, at[1] - 1), SubSeq(s, at[1] + 1, Len(s))>>)

\* EventCapabilities::set_prop_with_pair: the first arm whose fragment the key
\* contains assigns `pair.1.parse().ok()`; no arm, no change
set_prop_with_pair(self, pair) ==
    LET key == pair[1]
        val == pair[2]
    IN  IF Contains(key, "PausableSubscription")
        THEN [self EXCEPT !.pause_support = ParseBool(val)]
        ELSE IF Contains(key, "PullPointSupport")
        THEN [self EXCEPT !.pull_point_supoort = ParseBool(val)]
        ELSE IF Contains(key, "PolicySupport")
        THEN [self EXCEPT !.sub_policy_support = ParseBool(val)]
        ELSE IF Contains(key, "MaxNotification")
        THEN [self EXCEPT !.max_notif_produce = ParseU8(val)]
        ELSE IF Contains(key, "MaxNullPoints")
        THEN [self EXCEPT !.max_pull_points = ParseU8(val)]
        ELSE IF Contains(key, "NotificationStorage")
        THEN [self EXCEPT !.persist_notif_store = ParseBool(val)]
        ELSE self

RECURSIVE set_props(_, _, _)
\* `.iter().for_each(|v| result.set_prop_with_pair(*v))`
set_props(result, pairs, i) ==
    IF i > Len(pairs) THEN result
    ELSE set_props(set_prop_with_pair(result, pairs[i]), pairs, i + 1)

\* set_service_capabilities on the body of the response: `capabilities[0]`
\* panics on an empty list, `split_once('=').unwrap()` on a piece without '='
set_service_capabilities(body) ==
    LET capabilities == parse_soap(body, "Capabilities", None, TRUE, TRUE)
    IN  IF capabilities = <<>> THEN Panic
        ELSE LET pieces == split_space(capabilities[1])
                 pairs  == [i \in 1..Len(pieces) |-> split_once(pieces[i])]
             IN  IF \E i \in 1..Len(pairs) : pairs[i] = None THEN Panic
                 ELSE Ok(set_props(DefaultEventCapabilities,
                                   [i \in 1..Len(pairs) |-> pairs[i][1]], 1))

(***************************************************************************)
(* What a device may answer: HTTP responses [status, body], the body an    *)
(* XML event stream.                                                       *)
(***************************************************************************)
Response(status, body) == [status |-> status, body |-> body]

CategoryXAddr(category, url) == Element(category, TextElement("XAddr", url))

CapabilitiesFull ==
    Element("GetCapabilitiesResponse", Element("Capabilities",
        CategoryXAddr("Analytics", "http://cam/onvif/analytics_service")
        \o CategoryXAddr("Device", "http://cam/onvif/device_service")
        \o CategoryXAddr("Events", "http://cam/onvif/events_service")
        \o CategoryXAddr("Imaging", "http://cam/onvif/imaging_service")
        \o CategoryXAddr("Media", "http://cam/onvif/media_service")
        \o CategoryXAddr("PTZ", "http://cam/onvif/ptz_service")))

\* a device without PTZ
CapabilitiesNoPTZ ==
    Element("GetCapabilitiesResponse", Element("Capabilities",
        CategoryXAddr("Analytics", "http://cam/onvif/analytics_service")
        \o CategoryXAddr("Device", "http://cam/onvif/device_service")
        \o CategoryXAddr("Events", "http://cam/onvif/events_service")
        \o CategoryXAddr("Imaging", "http://cam/onvif/imaging_service")
        \o CategoryXAddr("Media", "http://cam/onvif/media_service")))

\* a Media XAddr that is no absolute URL
CapabilitiesRelative ==
    Element("GetCapabilitiesResponse", Element("Capabilities",
        CategoryXAddr("Analytics", "http://cam/onvif/analytics_service")
        \o CategoryXAddr("Events", "http://cam/onvif/events_service")
        \o CategoryXAddr("Imaging", "http://cam/onvif/imaging_service")
        \o CategoryXAddr("Media", "/onvif/media_service")
        \o CategoryXAddr("PTZ", "http://cam/onvif/ptz_service")))

DeviceInfoFull ==
    Element("GetDeviceInformationResponse",
        TextElement("Manufacturer", "ACME")
        \o TextElement("Model", "C100")
        \o TextElement("FirmwareVersion", "1.0.2")
        \o TextElement("SerialNumber", "SN42")
        \o TextElement("HardwareId", "hw1"))

DeviceInfoNoModel ==
    Element("GetDeviceInformationResponse",
        TextElement("Manufacturer", "ACME")
        \o TextElement("FirmwareVersion", "1.0.2")
        \o TextElement("SerialNumber", "SN42")
        \o TextElement("HardwareId", "hw1"))

VideoEncoder(encoding, resolution, profile) ==
    Element("VideoEncoderConfiguration",
        TextElement("Encoding", encoding)
        \o Element("Resolution", resolution)
        \o Element("H264", TextElement("H264Profile", profile)))

AudioEncoder(encoding) ==
    Element("AudioEncoderConfiguration", TextElement("Encoding", encoding))

ProfilesFull ==
    Element("GetProfilesResponse", Element("Profiles",
        TextElement("Name", "mainStream")
        \o VideoEncoder("H264", TextElement("Width", "1920")
                                \o TextElement("Height", "1080"), "Main")
        \o AudioEncoder("G711")))

\* two profiles: the main stream first, a sub stream second
ProfilesMainAndSub ==
    Element("GetProfilesResponse",
        Element("Profiles",
            TextElement("Name", "mainStream")
            \o VideoEncoder("H264", TextElement("Width", "1920")
                                    \o TextElement("Height", "1080"), "Main")
            \o AudioEncoder("G711"))
        \o Element("Profiles",
            TextElement("Name", "subStream")
            \o VideoEncoder("H264", TextElement("Width", "640")
                                    \o TextElement("Height", "480"), "Baseline")
            \o AudioEncoder("AAC")))

\* two profiles of which only the second has audio
ProfilesAudioInSecond ==
    Element("GetProfilesResponse",
        Element("Profiles",
            TextElement("Name", "mainStream")
            \o VideoEncoder("H264", TextElement("Width", "1920")
                                    \o TextElement("Height", "1080"), "Main"))
        \o Element("Profiles",
            TextElement("Name", "subStream")
            \o VideoEncoder("H264", TextElement("Width", "640")
                                    \o TextElement("Height", "480"), "Baseline")
            \o AudioEncoder("AAC")))

\* a profile whose resolution has a Width and no Height
ProfilesNoHeight ==
    Element("GetProfilesResponse", Element("Profiles",
        TextElement("Name", "mainStream")
        \o VideoEncoder("H264", TextElement("Width", "1920"), "Main")
        \o AudioEncoder("G711")))

\* a profile without audio
ProfilesNoAudio ==
    Element("GetProfilesResponse", Element("Profiles",
        TextElement("Name", "mainStream")
        \o VideoEncoder("H264", TextElement("Width", "640")
                                \o TextElement("Height", "480"), "Baseline")))

StreamUriFull ==
    Element("GetStreamUriResponse", Element("MediaUri",
        TextElement("Uri", "rtsp://cam:554/stream1")
        \o TextElement("InvalidAfterConnect", "false")
        \o TextElement("Timeout", "PT60S")))

StreamUriNoUri ==
    Element("GetStreamUriResponse", Element("MediaUri",
        TextElement("InvalidAfterConnect", "false")
        \o TextElement("Timeout", "PT60S")))

Service(url) == Element("Service", TextElement("XAddr", url))

ServicesWithEvent ==
    Element("GetServicesResponse",
        Service("http://cam/onvif/device_service")
        \o Service("http://cam/onvif/media_service")
        \o Service("http://cam/onvif/events_service"))

ServicesNoEvent ==
    Element("GetServicesResponse",
        Service("http://cam/onvif/device_service")
        \o Service("http://cam/onvif/media_service")
        \o Service("http://cam/onvif/ptz_service"))

\* a device that announces every service, and one the match does not know
ServicesAll ==
    Element("GetServicesResponse",
        Service("http://cam/onvif/device_service")
        \o Service("http://cam/onvif/analytics_service")
        \o Service("http://cam/onvif/events_service")
        \o Service("http://cam/onvif/deviceIO_service")
        \o Service("http://cam/onvif/imaging_service")
        \o Service("http://cam/onvif/media_service")
        \o Service("http://cam/onvif/media2_service")
        \o Service("http://cam/onvif/ptz_service")
        \o Service("http://cam/onvif/search_service"))

\* an event service announced by a relative address
ServicesRelativeEvent ==
    Element("GetServicesResponse",
        Service("http://cam/onvif/device_service")
        \o Service("/onvif/events_service"))

\* XAddrs with the fragments of several arms, and two event services
ServicesOverlapping ==
    Element("GetServicesResponse",
        Service("http://cam/onvif/device_service")
        \o Service("http://cam/onvif/device_service/imaging")
        \o Service("http://cam/onvif/event_analytics")
        \o Service("http://cam/onvif/ptz/media2")
        \o Service("http://cam/onvif/events_service")
        \o Service("http://cam/onvif/event2_service"))

PullMessagesFull ==
    Element("PullMessagesResponse",
        TextElement("CurrentTime", "2024-01-01T00:00:00Z"))

\* a SOAP fault, the body of a response with a non-success status
SoapFault ==
    Element("Fault", Element("Reason", TextElement("Text", "Action Failed")))

\* a reply cut off in the middle of a tag
Malformed == <<StartElement("Envelope", <<>>), XmlError>>

\* the responses a device may give to each message type
Responses(msg) ==
    { Response(500, SoapFault), Response(200, Malformed) }
    \cup
    ( CASE msg = "Capabilities" ->
               { Response(200, CapabilitiesFull), Response(200, CapabilitiesNoPTZ),
                 Response(200, CapabilitiesRelative) }
        [] msg = "DeviceInfo" ->
               { Response(200, DeviceInfoFull), Response(200, DeviceInfoNoModel) }
        [] msg = "Profiles" ->
               { Response(200, ProfilesFull), Response(200, ProfilesNoHeight),
                 Response(200, ProfilesNoAudio), Response(200, ProfilesMainAndSub),
                 Response(200, ProfilesAudioInSecond) }
        [] msg = "GetStreamURI" ->
               { Response(200, StreamUriFull), Response(200, StreamUriNoUri) }
        [] msg = "GetServices" ->
               { Response(200, ServicesWithEvent), Response(200, ServicesNoEvent),
                 Response(200, ServicesRelativeEvent), Response(200, ServicesAll),
                 Response(200, ServicesOverlapping) }
        [] OTHER ->
               { Response(200, PullMessagesFull) } )

(***************************************************************************)
(* State.                                                                  *)
(***************************************************************************)
VARIABLES
    \* --- Camera::build_all
    cam,            \* the Camera record build_all works on
    stage,          \* the stage build_all is in: 1..5, 6 = pull_messages; 0 before
    phase,          \* "idle" | "sending" (inside send) | "received" (send returned Ok)
    outcome,        \* of the last build_all: "None" | "Running" | "Ok" | "Err" | "Panic"
    build_err,      \* the error build_all returned, when outcome = "Err"
    builds,         \* calls of build_all made so far
    calls,          \* the send calls of the current build_all, in order: [msg, url]
    \* --- client::send
    send_msg,       \* argument msg
    send_url,       \* argument onvif_url
    try_times,      \* local try_times
    wire,           \* the HTTP requests posted by the current send call: [msg, url]
    send_ret,       \* what the current send call returned; kind "Pending" until then
    failure,        \* history: the first send call of this build_all that returned
                    \* Err: [err, stage, calls (made so far)]; NoFailure if none
    \* --- client::discover
    d_pc,           \* "Idle" | "Probing" | "Collecting" | "Done" | "Failed"
    try_send,       \* local try_send
    try_recv,       \* local try_recv
    devices_found,  \* local devices_found
    devices_check,  \* local devices_check
    sources,        \* for each entry of devices_found, the sender address of its reply
    probes,         \* probes broadcast by this call
    recvs,          \* receive operations made by this call
    heard,          \* the datagrams received by this call: [addr, body]
    d_ret,          \* what discover returned; kind "Pending" until then
    \* --- utils::parse_soap, called on its own
    arg_response,   \* argument response, as the reader's events
    arg_element,    \* argument element_to_find
    arg_parent,     \* argument parent
    arg_single,     \* argument is_single
    arg_attributes, \* argument is_attributes
    parsed,         \* what parse_soap returned; kind "Pending" until then
    \* --- the registry file and Client::new (client.rs)
    file,           \* devices_found.txt: None if absent, else Some(contents)
    save_arg,       \* the list the last file_save call was given
    save_ret,       \* what the last file_save call returned
    load_ret,       \* what the last file_load call returned, if no file_save
                    \* was called since; kind "Pending" otherwise
    client,         \* what the last Client::new returned: Ok([devices,
                    \* device_file_exists]) or Panic; kind "Pending" before
    c_discover,     \* what Client::discover returned in the last Client::new;
                    \* kind "Pending" if it was not called
    c_probes,       \* probes sent by the last Client::new
    starts,         \* calls of Client::new so far
    \* --- Client::send (client.rs)
    c_sends,        \* calls of Client::send so far
    c_send_ret,     \* what the last Client::send returned; kind "Pending" before
    \* --- device::parse_device_type, called on its own
    arg_dev_type,   \* argument dev_type
    classified,     \* the DeviceTypes value returned: None before the call
    \* --- two build_all calls running in two tasks, one Camera each
    cams,           \* task -> the Camera record its build_all works on
    pipe,           \* task -> [stage, at, try_times, outcome, err] of its build_all
    inflight,       \* task -> the requests posted by the task and not yet
                    \* answered or dropped: [request, url]
    answered,       \* task -> what its send calls returned so far, in order
    \* --- CameraBuilder::set_service_capabilities, called on its own
    caps_response,  \* the body of the GetServiceCapabilities response
    caps_ret        \* what the stage returned; kind "Pending" until then

build_vars == <<cam, stage, phase, outcome, build_err, builds, calls>>
send_vars == <<send_msg, send_url, try_times, wire, send_ret, failure>>
discover_vars == <<d_pc, try_send, try_recv, devices_found, devices_check,
                   sources, probes, recvs, heard, d_ret>>
extractor_vars == <<arg_response, arg_element, arg_parent, arg_single,
                    arg_attributes, parsed>>
registry_vars == <<file, save_arg, save_ret, load_ret, client, c_discover,
                   c_probes, starts>>
csend_vars == <<c_sends, c_send_ret>>
classify_vars == <<arg_dev_type, classified>>
pair_vars == <<cams, pipe, inflight, answered>>
caps_vars == <<caps_response, caps_ret>>
vars == <<build_vars, send_vars, discover_vars, extractor_vars, registry_vars,
          csend_vars, classify_vars, pair_vars, caps_vars>>

Pending == [kind |-> "Pending", val |-> <<>>, err |-> ""]
NoFailure == [err |-> "", stage |-> 0, calls |-> 0]

(***************************************************************************)
(* client::send (client/mod.rs).                                           *)
(***************************************************************************)
\* `if try_times == 5 { break 'read; }`
SendTries == 5

\* the loop gives up in the iteration that counts try_times up to SendTries
gives_up(t) == t = SendTries

\* soap_msg: the request element of the envelope built for a message type
soap_msg(msg) ==
    CASE msg = "Capabilities"           -> "GetCapabilities"
      [] msg = "DeviceInfo"             -> "GetDeviceInformation"
      [] msg = "Profiles"               -> "GetProfiles"
      [] msg = "GetStreamURI"           -> "GetStreamUri"
      [] msg = "GetServices"            -> "GetServices"
      [] msg = "GetServiceCapabilities" -> "GetServiceCapabilities"
      [] msg = "PullMessages"           -> "PullMessages"

\* a request as the device sees it: the envelope's request element and the
\* URL it is posted to
Request(msg, url) == [request |-> soap_msg(msg), url |-> url]

\* the outcomes of timeout(1s, request.send()).await
Timeout == [kind |-> "Timeout", resp |-> <<>>]            \* Err(Elapsed)
ConnectError == [kind |-> "Connect", resp |-> <<>>]       \* Ok(Err(reqwest::Error))
Answered(resp) == [kind |-> "Response", resp |-> resp]    \* Ok(Ok(response))

\* variant: a response that reports a fault is retried like a timeout
send_iteration_retrying_faults(t, attempt) ==
    IF gives_up(t + 1)
    THEN [try_times |-> t + 1, post |-> FALSE, ret |-> Err(ErrNoResponse)]
    ELSE IF attempt.kind = "Timeout"
    THEN [try_times |-> t + 1, post |-> TRUE, ret |-> Pending]
    ELSE IF attempt.kind = "Connect"
    THEN [try_times |-> t + 1, post |-> TRUE, ret |-> Err(ErrConnect)]
    ELSE IF attempt.resp.status # 200
    THEN [try_times |-> t + 1, post |-> TRUE, ret |-> Pending]
    ELSE [try_times |-> t + 1, post |-> TRUE, ret |-> Ok(attempt.resp)]

\* what one iteration of the 'read loop, entered with try_times = t, does on
\* the given outcome of the awaited attempt.  post: whether a request was
\* posted; ret: the value send returns (Pending: the loop goes on)
send_iteration(t, attempt) ==
    IF gives_up(t + 1)
    THEN [try_times |-> t + 1, post |-> FALSE, ret |-> Err(ErrNoResponse)]
    ELSE IF attempt.kind = "Timeout"
    THEN [try_times |-> t + 1, post |-> TRUE, ret |-> Pending]
    ELSE IF attempt.kind = "Connect"
    THEN [try_times |-> t + 1, post |-> TRUE, ret |-> Err(ErrConnect)]
    ELSE [try_times |-> t + 1, post |-> TRUE, ret |-> Ok(attempt.resp)]

(***************************************************************************)
(* Camera::build_all (device/camera.rs).                                   *)
(***************************************************************************)
\* variant: stages 2 and 3 send each other's message
StageMsg_swapped(k) ==
    CASE k = 1 -> "Capabilities"
      [] k = 2 -> "Profiles"
      [] k = 3 -> "DeviceInfo"
      [] k = 4 -> "GetStreamURI"
      [] k = 5 -> "GetServices"
      [] k = 6 -> "PullMessages"

\* the message each stage sends
StageMsg(k) ==
    CASE k = 1 -> "Capabilities"
      [] k = 2 -> "DeviceInfo"
      [] k = 3 -> "Profiles"
      [] k = 4 -> "GetStreamURI"
      [] k = 5 -> "GetServices"
      [] k = 6 -> "PullMessages"

\* the stage function applied to the body of the response
stage_fn(k, body, log_info) ==
    CASE k = 1 -> set_capabilities(body, log_info)
      [] k = 2 -> set_device_info(body, log_info)
      [] k = 3 -> set_profiles(body, log_info)
      [] k = 4 -> set_stream_uri(body, log_info)
      [] k = 5 -> set_services(body, log_info)
      [] k = 6 -> pull_messages(body, log_info)

\* variant: stage 1 also takes the media URL for the control URL
assign_rebasing(c, k, val) ==
    CASE k = 1 -> [c EXCEPT !.capabilities = val,
                            !.base.url_onvif = val.url_media[1]]
      [] k = 2 -> [c EXCEPT !.device_info = val]
      [] k = 3 -> [c EXCEPT !.profiles = val]
      [] k = 4 -> [c EXCEPT !.stream = val]
      [] k = 5 -> [c EXCEPT !.services = val]
      [] k = 6 -> c

\* `self.<sub-record> = ...` of stage k
assign(c, k, val) ==
    CASE k = 1 -> [c EXCEPT !.capabilities = val]
      [] k = 2 -> [c EXCEPT !.device_info = val]
      [] k = 3 -> [c EXCEPT !.profiles = val]
      [] k = 4 -> [c EXCEPT !.stream = val]
      [] k = 5 -> [c EXCEPT !.services = val]
      [] k = 6 -> c

Go(c, go, k, msg, url, err) ==
    [cam |-> c, go |-> go, stage |-> k, msg |-> msg, url |-> url, err |-> err]

\* build_all after stage k's function returned Ok(val): the assignment of the
\* sub-record and what follows it up to the next await
after_stage(c, k, val) ==
    LET c2 == assign(c, k, val) IN
    IF k < 5 THEN Go(c2, "send", k + 1, StageMsg(k + 1), c2.base.url_onvif, "")
    ELSE IF k = 5
    THEN \* self.services.event.as_ref().unwrap(); url::Url::parse(&url)?
         IF c2.services.event = None THEN Go(c2, "Panic", k, "", "", "")
         ELSE IF ~UrlParses(c2.services.event[1])
         THEN Go(c2, "Err", k, "", "", ErrUrlParse)
         ELSE Go(c2, "send", 6, StageMsg(6), c2.services.event[1], "")
    ELSE Go(c2, "Ok", k, "", "", "")

\* variant: an Err of a stage is dropped and build_all goes on to the next stage
build_all_dropping_err(c, k, r) ==
    IF r.kind = "Panic" THEN Go(c, "Panic", k, "", "", "")
    ELSE IF r.kind = "Err"
    THEN IF k < 5
         THEN Go(c, "send", k + 1, StageMsg(k + 1), c.base.url_onvif, "")
         ELSE Go(c, "Ok", k, "", "", "")
    ELSE after_stage(c, k, r.val)

\* variant: an Err of a stage undoes the assignments of the stages before it
build_all_rolling_back(c, k, r) ==
    IF r.kind = "Panic" THEN Go(c, "Panic", k, "", "", "")
    ELSE IF r.kind = "Err" THEN Go(NewCamera(c.base), "Err", k, "", "", r.err)
    ELSE after_stage(c, k, r.val)

\* build_all from the point where stage k's function returned r, up to the
\* next await: go = "send" (the next stage's send call), "Ok" / "Err" (build_all
\* returns) or "Panic".  `?` returns an Err to the caller.
build_all(c, k, r) ==
    IF r.kind = "Panic" THEN Go(c, "Panic", k, "", "", "")
    ELSE IF r.kind = "Err" THEN Go(c, "Err", k, "", "", r.err)
    ELSE after_stage(c, k, r.val)

\* the state change of build_all continuing after stage k's function returned r;
\* t, w, sr: try_times, wire and the returned value of the send call just ended
Continue(k, r, t, w, sr) ==
    LET g == build_all(cam, k, r) IN
    /\ cam' = g.cam
    /\ IF g.go = "send"
       THEN /\ stage' = g.stage
            /\ phase' = "sending"
            /\ calls' = Append(calls, Request(g.msg, g.url))
            /\ send_msg' = g.msg
            /\ send_url' = g.url
            /\ try_times' = 0
            /\ wire' = <<>>
            /\ send_ret' = Pending
            /\ UNCHANGED <<outcome, build_err>>
       ELSE /\ phase' = "idle"
            /\ outcome' = g.go
            /\ build_err' = g.err
            /\ try_times' = t
            /\ wire' = w
            /\ send_ret' = sr
            /\ UNCHANGED <<stage, calls, send_msg, send_url>>

\* the caller invokes camera.build_all(): stage 1 calls send
BuildAll ==
    /\ phase = "idle"
    /\ outcome # "Panic"
    /\ builds < MaxBuilds
    /\ builds' = builds + 1
    /\ outcome' = "Running"
    /\ build_err' = ""
    /\ stage' = 1
    /\ phase' = "sending"
    /\ calls' = <<Request(StageMsg(1), cam.base.url_onvif)>>
    /\ send_msg' = StageMsg(1)
    /\ send_url' = cam.base.url_onvif
    /\ try_times' = 0
    /\ wire' = <<>>
    /\ send_ret' = Pending
    /\ failure' = NoFailure
    /\ UNCHANGED <<cam, discover_vars, extractor_vars, registry_vars,
                   csend_vars, classify_vars, pair_vars, caps_vars>>

\* one iteration of send's loop, on the given outcome of the awaited attempt
SendIteration(attempt) ==
    LET it == send_iteration(try_times, attempt)
        posted == IF it.post
                  THEN Append(wire, Request(send_msg, send_url))
                  ELSE wire
    IN
    /\ phase = "sending"
    /\ IF it.ret.kind = "Pending"
       THEN \* timed out: loop
            /\ try_times' = it.try_times
            /\ wire' = posted
            /\ UNCHANGED <<build_vars, send_msg, send_url, send_ret, failure>>
       ELSE IF it.ret.kind = "Ok"
       THEN \* send returns Ok(response); the stage awaits the body
            /\ try_times' = it.try_times
            /\ wire' = posted
            /\ send_ret' = it.ret
            /\ phase' = "received"
            /\ UNCHANGED <<cam, stage, outcome, build_err, builds, calls,
                           send_msg, send_url, failure>>
       ELSE \* send returns Err: the stage's `?` hands it to build_all
            /\ Continue(stage, it.ret, it.try_times, posted, it.ret)
            /\ failure' = IF failure = NoFailure
                          THEN [err |-> it.ret.err, stage |-> stage,
                                calls |-> Len(calls)]
                          ELSE failure
            /\ UNCHANGED builds
    /\ UNCHANGED <<discover_vars, extractor_vars, registry_vars,
                   csend_vars, classify_vars, pair_vars, caps_vars>>

\* the attempt timed out (and the loop had not given up)
SendTimeout ==
    /\ ~gives_up(try_times + 1)
    /\ SendIteration(Timeout)

\* the loop gives up: the iteration posts nothing and send returns the error
SendExhausted ==
    /\ gives_up(try_times + 1)
    /\ SendIteration(Timeout)

\* request.send() failed
SendConnectError ==
    /\ ~gives_up(try_times + 1)
    /\ SendIteration(ConnectError)

\* request.send() produced an HTTP response
SendResponse ==
    /\ ~gives_up(try_times + 1)
    /\ \E resp \in Responses(send_msg) : SendIteration(Answered(resp))

\* response.bytes().await? / response.text().await? fails
BodyError ==
    /\ phase = "received"
    /\ Continue(stage, Err(ErrBody), try_times, wire, send_ret)
    /\ UNCHANGED <<builds, failure, discover_vars, extractor_vars, registry_vars,
                   csend_vars, classify_vars, pair_vars, caps_vars>>

\* the body arrived: the stage function parses it and build_all goes on
StageFinish ==
    /\ phase = "received"
    /\ \E log_info \in BOOLEAN :
           Continue(stage, stage_fn(stage, send_ret.val.body, log_info),
                    try_times, wire, send_ret)
    /\ UNCHANGED <<builds, failure, discover_vars, extractor_vars, registry_vars,
                   csend_vars, classify_vars, pair_vars, caps_vars>>

SetCapabilities ==
    /\ stage = 1
    /\ StageFinish

SetDeviceInfo ==
    /\ stage = 2
    /\ StageFinish

SetProfiles ==
    /\ stage = 3
    /\ StageFinish

SetStreamUri ==
    /\ stage = 4
    /\ StageFinish

SetServices ==
    /\ stage = 5
    /\ StageFinish

PullMessages ==
    /\ stage = 6
    /\ StageFinish

(***************************************************************************)
(* Two build_all calls in two tasks, each on its own Camera.  A task is    *)
(* suspended at each await of send (device/camera.rs, client/mod.rs).      *)
(***************************************************************************)
Tasks == {1, 2}

\* a task that has not called build_all yet
NewPipe ==
    [stage |-> 0, at |-> "new", msg |-> "", url |-> "", try_times |-> 0,
     resp |-> <<>>, outcome |-> "None", err |-> "", log_info |-> FALSE]

\* variant: the sub-records are written to a record shared by the tasks
store_shared(cs, t, c) == [u \in DOMAIN cs |-> [c EXCEPT !.base = cs[u].base]]

\* `self.<sub-record> = ..`: self is the Camera build_all was called on
store(cs, t, c) == [cs EXCEPT ![t] = c]

\* variant: the request of an attempt that timed out stays outstanding
drop_request_kept(requests) == requests

\* timeout(..).await gave Err(Elapsed): the future of request.send() is
\* dropped, which ends the request
drop_request(requests) == SubSeq(requests, 1, Len(requests) - 1)

\* what a stage was given: the value send returned and whether the body
\* could be read
StageInput(ret, body_ok) == [ret |-> ret, body_ok |-> body_ok]

\* the state change of task t when its build_all continues after the stage
\* function returned r
TaskContinue(t, r, input) ==
    LET p == pipe[t]
        g == build_all(cams[t], p.stage, r)
    IN
    /\ cams' = store(cams, t, g.cam)
    /\ answered' = [answered EXCEPT ![t] = Append(@, input)]
    /\ pipe' = [pipe EXCEPT ![t] =
                  IF g.go = "send"
                  THEN [p EXCEPT !.stage = g.stage, !.at = "sending",
                                 !.msg = g.msg, !.url = g.url,
                                 !.try_times = 0, !.resp = <<>>]
                  ELSE [p EXCEPT !.at = "done", !.outcome = g.go,
                                 !.err = g.err, !.resp = <<>>]]

\* task t calls build_all on its camera: stage 1 calls send
TaskBuildAll(t) ==
    /\ pipe[t].at = "new"
    /\ pipe' = [pipe EXCEPT ![t] =
                  [@ EXCEPT !.stage = 1, !.at = "sending", !.msg = StageMsg(1),
                            !.url = cams[t].base.url_onvif,
                            !.outcome = "Running"]]
    /\ UNCHANGED <<cams, inflight, answered>>
    /\ UNCHANGED <<build_vars, send_vars, discover_vars, extractor_vars,
                   registry_vars, csend_vars, classify_vars, caps_vars>>

\* an iteration of send's loop posts its request and awaits it
TaskPost(t) ==
    LET p == pipe[t]
        it == send_iteration(p.try_times, Timeout)
    IN
    /\ p.at = "sending"
    /\ it.post
    /\ pipe' = [pipe EXCEPT ![t] = [p EXCEPT !.try_times = it.try_times,
                                             !.at = "awaiting"]]
    /\ inflight' = [inflight EXCEPT ![t] = Append(@, Request(p.msg, p.url))]
    /\ UNCHANGED <<cams, answered>>
    /\ UNCHANGED <<build_vars, send_vars, discover_vars, extractor_vars,
                   registry_vars, csend_vars, classify_vars, caps_vars>>

\* the loop gives up: send returns the error and build_all ends
TaskExhausted(t) ==
    LET p == pipe[t]
        it == send_iteration(p.try_times, Timeout)
    IN
    /\ p.at = "sending"
    /\ ~it.post
    /\ TaskContinue(t, it.ret, StageInput(it.ret, TRUE))
    /\ UNCHANGED inflight
    /\ UNCHANGED <<build_vars, send_vars, discover_vars, extractor_vars,
                   registry_vars, csend_vars, classify_vars, caps_vars>>

\* the awaited attempt timed out
TaskTimeout(t) ==
    LET p == pipe[t]
        it == send_iteration(p.try_times - 1, Timeout)
    IN
    /\ p.at = "awaiting"
    /\ it.ret = Pending
    /\ pipe' = [pipe EXCEPT ![t] = [p EXCEPT !.at = "sending"]]
    /\ inflight' = [inflight EXCEPT ![t] = drop_request(@)]
    /\ UNCHANGED <<cams, answered>>
    /\ UNCHANGED <<build_vars, send_vars, discover_vars, extractor_vars,
                   registry_vars, csend_vars, classify_vars, caps_vars>>

\* the awaited attempt failed to connect
TaskConnectError(t) ==
    LET p == pipe[t]
        it == send_iteration(p.try_times - 1, ConnectError)
    IN
    /\ p.at = "awaiting"
    /\ inflight' = [inflight EXCEPT ![t] = SubSeq(@, 1, Len(@) - 1)]
    /\ TaskContinue(t, it.ret, StageInput(it.ret, TRUE))
    /\ UNCHANGED <<build_vars, send_vars, discover_vars, extractor_vars,
                   registry_vars, csend_vars, classify_vars, caps_vars>>

\* the responses the two devices give: the full response or a fault
TaskResponses(msg) ==
    { resp \in Responses(msg) :
        \/ resp.status = 500
        \/ resp.body \in {CapabilitiesFull, DeviceInfoFull, ProfilesFull,
                          StreamUriFull, ServicesWithEvent, PullMessagesFull} }

\* the awaited attempt was answered: send returns the response
TaskResponse(t) ==
    LET p == pipe[t] IN
    /\ p.at = "awaiting"
    /\ \E resp \in TaskResponses(p.msg) :
         LET it == send_iteration(p.try_times - 1, Answered(resp)) IN
         pipe' = [pipe EXCEPT ![t] = [p EXCEPT !.at = "received",
                                               !.resp = it.ret]]
    /\ inflight' = [inflight EXCEPT ![t] = SubSeq(@, 1, Len(@) - 1)]
    /\ UNCHANGED <<cams, answered>>
    /\ UNCHANGED <<build_vars, send_vars, discover_vars, extractor_vars,
                   registry_vars, csend_vars, classify_vars, caps_vars>>

\* the body of the response cannot be read
TaskBodyError(t) ==
    /\ pipe[t].at = "received"
    /\ TaskContinue(t, Err(ErrBody), StageInput(pipe[t].resp, FALSE))
    /\ UNCHANGED inflight
    /\ UNCHANGED <<build_vars, send_vars, discover_vars, extractor_vars,
                   registry_vars, csend_vars, classify_vars, caps_vars>>

\* the stage function parses the body and build_all goes on
TaskStage(t) ==
    LET p == pipe[t] IN
    /\ p.at = "received"
    /\ TaskContinue(t, stage_fn(p.stage, p.resp.val.body, p.log_info),
                    StageInput(p.resp, TRUE))
    /\ UNCHANGED inflight
    /\ UNCHANGED <<build_vars, send_vars, discover_vars, extractor_vars,
                   registry_vars, csend_vars, classify_vars, caps_vars>>

(***************************************************************************)
(* client::discover (client/mod.rs).                                       *)
(***************************************************************************)
\* `while try_send < 2`
SendRounds == 2
\* `while try_recv < 5`
RecvTries == 5

\* variant: the Doorbell arm is tried before the Camera arm
parse_device_type_doorbell_first(dev_type) ==
    IF Contains(dev_type, "Doorbell") THEN "Doorbell"
    ELSE IF Contains(dev_type, "NetworkVideoTransmitter") THEN "Camera"
    ELSE "Unknown"

\* device::parse_device_type
parse_device_type(dev_type) ==
    IF Contains(dev_type, "NetworkVideoTransmitter") THEN "Camera"
    ELSE IF Contains(dev_type, "Doorbell") THEN "Doorbell"
    ELSE "Unknown"

\* the type names a ProbeMatch may list in its Types element
TypeTokens ==
    {"dn:NetworkVideoTransmitter", "tds:Device", "dn:Doorbell",
     "dn:NetworkVideoDisplay", "tt:doorbell"}

\* the names of a Types element, separated by spaces
RECURSIVE JoinTypes(_)
JoinTypes(names) ==
    IF names = <<>> THEN ""
    ELSE IF Len(names) = 1 THEN names[1]
    ELSE names[1] \o " " \o JoinTypes(Tail(names))

\* the Types strings of up to MaxTypes names
TypesStrings ==
    { JoinTypes(names) : names \in UNION { [1..n -> TypeTokens] : n \in 0..MaxTypes } }

\* discover classifies the Types string of a reply
ParseDeviceType ==
    /\ classified = None
    /\ classified' = Some(parse_device_type(arg_dev_type))
    /\ UNCHANGED <<arg_dev_type, build_vars, send_vars, discover_vars,
                   extractor_vars, registry_vars, csend_vars, pair_vars, caps_vars>>

\* variant: every datagram is taken for a new device
is_new_always(check, addr) == TRUE

\* `!devices_check.contains(&addr.to_string())`
is_new(check, addr) == ~Contains(check, addr)

\* the handling of one received datagram (addr, body): the new devices_found,
\* devices_check and sources, or the error / panic that ends discover
on_datagram(found, check, src, addr, body) ==
    IF ~is_new(check, addr)
    THEN [kind |-> "Ok", found |-> found, check |-> check, src |-> src, err |-> ""]
    ELSE
      LET check2      == check \o ":" \o addr
          xaddrs      == parse_soap(body, "XAddrs", None, TRUE, FALSE)
          device_type == parse_soap(body, "Types", None, TRUE, FALSE)
          scopes      == parse_soap(body, "Scopes", None, TRUE, FALSE)
          stop(kind, err) ==
              [kind |-> kind, found |-> found, check |-> check2, src |-> src,
               err |-> err]
      IN  IF xaddrs = <<>> THEN stop("Panic", "")
          ELSE IF ~UrlParses(xaddrs[1]) THEN stop("Err", ErrUrlParse)
          ELSE IF device_type = <<>> THEN stop("Panic", "")
          ELSE IF scopes = <<>> THEN stop("Panic", "")
          ELSE [kind  |-> "Ok",
                found |-> Append(found,
                                 [url_onvif   |-> Url(xaddrs[1]),
                                  device_type |-> parse_device_type(device_type[1]),
                                  scopes      |-> split_space(scopes[1])]),
                check |-> check2,
                src   |-> Append(src, addr),
                err   |-> ""]

\* variant: the inner loop makes one receive attempt more
after_recv_extra(tr, ts, found) ==
    IF tr < RecvTries + 1 THEN "Collecting"
    ELSE IF ts < SendRounds THEN "Probing"
    ELSE IF found = <<>> THEN "Panic"
    ELSE "Done"

\* variant: after the receive attempts of a round the call goes on receiving
\* instead of broadcasting the probe of the next round
after_recv_without_probe(tr, ts, found) ==
    IF tr < RecvTries THEN "Collecting"
    ELSE IF ts < SendRounds THEN "Collecting"
    ELSE IF found = <<>> THEN "Panic"
    ELSE "Done"

\* variant: the call returns as soon as a device was found
after_recv_until_found(tr, ts, found) ==
    IF found # <<>> THEN "Done"
    ELSE IF tr < RecvTries THEN "Collecting"
    ELSE IF ts < SendRounds THEN "Probing"
    ELSE "Panic"

\* where discover stands after a receive attempt that did not end the call
after_recv(tr, ts, found) ==
    IF tr < RecvTries THEN "Collecting"
    ELSE IF ts < SendRounds THEN "Probing"
    ELSE IF found = <<>> THEN "Panic"
    ELSE "Done"

\* the sender addresses of the datagrams
Addrs == {"192.168.1.5:3702", "92.168.1.5:3702", "10.0.0.7:3702"}

ProbeMatch(inner) ==
    Element("Envelope", Element("Body", Element("ProbeMatches",
        Element("ProbeMatch", inner))))

ProbeMatchCamera ==
    ProbeMatch(TextElement("Types", "dn:NetworkVideoTransmitter tds:Device")
               \o TextElement("Scopes", "onvif://www.onvif.org/type/video_encoder onvif://www.onvif.org/name/cam")
               \o TextElement("XAddrs", "http://192.168.1.5/onvif/device_service"))

ProbeMatchDoorbell ==
    ProbeMatch(TextElement("Types", "dn:Doorbell")
               \o TextElement("Scopes", "onvif://www.onvif.org/name/door")
               \o TextElement("XAddrs", "http://10.0.0.7:8080/onvif/device_service"))

\* a reply that carries no XAddrs
ProbeMatchNoXAddrs ==
    ProbeMatch(TextElement("Types", "dn:NetworkVideoTransmitter")
               \o TextElement("Scopes", "onvif://www.onvif.org/name/cam"))

\* a reply whose XAddrs is no absolute URL
ProbeMatchRelative ==
    ProbeMatch(TextElement("Types", "dn:NetworkVideoTransmitter")
               \o TextElement("Scopes", "onvif://www.onvif.org/name/cam")
               \o TextElement("XAddrs", "/onvif/device_service"))

\* the reply of a doorbell that announces an IPv4 and an IPv6 address of its
\* device service
ProbeMatchTwoXAddrs ==
    ProbeMatch(TextElement("Types", "dn:Doorbell")
               \o TextElement("Scopes", "onvif://www.onvif.org/name/door")
               \o TextElement("XAddrs", "http://10.0.0.7/onvif/device_service http://[fe80::7]/onvif/device_service"))

\* the datagrams a receive attempt of discover can get
Datagrams ==
    {ProbeMatchCamera, ProbeMatchTwoXAddrs, ProbeMatchNoXAddrs,
     ProbeMatchRelative, Malformed}

\* the io::Error of UdpSocket::bind and of send_to
ErrBind == "bind: address not available"
ErrSendTo == "send_to: network is unreachable"

\* discover() is called and UdpSocket::bind succeeds
DiscoverBind ==
    /\ d_pc = "Idle"
    /\ d_pc' = "Probing"
    /\ UNCHANGED <<try_send, try_recv, devices_found, devices_check, sources,
                   probes, recvs, heard, d_ret>>
    /\ UNCHANGED <<build_vars, send_vars, extractor_vars, registry_vars,
                   csend_vars, classify_vars, pair_vars, caps_vars>>

\* discover() is called and UdpSocket::bind(..).await? fails
DiscoverBindError ==
    /\ d_pc = "Idle"
    /\ d_pc' = "Failed"
    /\ d_ret' = Err(ErrBind)
    /\ UNCHANGED <<try_send, try_recv, devices_found, devices_check, sources,
                   probes, recvs, heard>>
    /\ UNCHANGED <<build_vars, send_vars, extractor_vars, registry_vars,
                   csend_vars, classify_vars, pair_vars, caps_vars>>

\* an iteration of the outer loop up to its first receive: send_to succeeds
Broadcast ==
    /\ d_pc = "Probing"
    /\ try_send' = try_send + 1
    /\ try_recv' = 0
    /\ probes' = probes + 1
    /\ d_pc' = "Collecting"
    /\ UNCHANGED <<devices_found, devices_check, sources, recvs, heard, d_ret>>
    /\ UNCHANGED <<build_vars, send_vars, extractor_vars, registry_vars,
                   csend_vars, classify_vars, pair_vars, caps_vars>>

\* udp_client.send_to(..).await? fails
BroadcastError ==
    /\ d_pc = "Probing"
    /\ try_send' = try_send + 1
    /\ try_recv' = 0
    /\ d_pc' = "Failed"
    /\ d_ret' = Err(ErrSendTo)
    /\ UNCHANGED <<devices_found, devices_check, sources, probes, recvs, heard>>
    /\ UNCHANGED <<build_vars, send_vars, extractor_vars, registry_vars,
                   csend_vars, classify_vars, pair_vars, caps_vars>>

\* the end of a receive attempt that left found as the list of devices
EndRecv(found) ==
    LET nxt == after_recv(try_recv + 1, try_send, found) IN
    /\ try_recv' = try_recv + 1
    /\ recvs' = recvs + 1
    /\ IF nxt = "Panic"
       THEN d_pc' = "Failed" /\ d_ret' = Panic
       ELSE IF nxt = "Done"
       THEN d_pc' = "Done" /\ d_ret' = Ok(found)
       ELSE d_pc' = nxt /\ UNCHANGED d_ret

\* a receive attempt: the 2 s timeout elapsed
RecvTimeout ==
    /\ d_pc = "Collecting"
    /\ EndRecv(devices_found)
    /\ UNCHANGED <<try_send, devices_found, devices_check, sources, probes, heard>>
    /\ UNCHANGED <<build_vars, send_vars, extractor_vars, registry_vars,
                   csend_vars, classify_vars, pair_vars, caps_vars>>

\* a receive attempt: recv_buf_from returned an error, which is only printed
RecvError ==
    /\ d_pc = "Collecting"
    /\ EndRecv(devices_found)
    /\ UNCHANGED <<try_send, devices_found, devices_check, sources, probes, heard>>
    /\ UNCHANGED <<build_vars, send_vars, extractor_vars, registry_vars,
                   csend_vars, classify_vars, pair_vars, caps_vars>>

\* a receive attempt: a datagram arrived
RecvReply ==
    /\ d_pc = "Collecting"
    /\ Len(heard) < MaxReplies
    /\ \E addr \in Addrs, body \in Datagrams :
         LET r == on_datagram(devices_found, devices_check, sources, addr, body) IN
         /\ heard' = Append(heard, [addr |-> addr, body |-> body])
         /\ devices_found' = r.found
         /\ devices_check' = r.check
         /\ sources' = r.src
         /\ IF r.kind = "Ok"
            THEN EndRecv(r.found)
            ELSE /\ try_recv' = try_recv + 1
                 /\ recvs' = recvs + 1
                 /\ d_pc' = "Failed"
                 /\ d_ret' = IF r.kind = "Err" THEN Err(r.err) ELSE Panic
    /\ UNCHANGED <<try_send, probes>>
    /\ UNCHANGED <<build_vars, send_vars, extractor_vars, registry_vars,
                   csend_vars, classify_vars, pair_vars, caps_vars>>

(***************************************************************************)
(* utils::parse_soap called on its own (utils/mod.rs).                     *)
(***************************************************************************)
\* <T k="v" m="w">d</T>
WithAttributes ==
    <<StartElement("T", <<Attribute("k", "v"), Attribute("m", "w")>>),
      Characters("d"), EndElement("T")>>

\* <T><U z="9"/></T>
ChildWithAttributes ==
    Element("T", <<StartElement("U", <<Attribute("z", "9")>>), EndElement("U")>>)

\* what a document is put together from
Pieces ==
    { TextElement("T", "a"),
      TextElement("T", "b"),
      Element("T", <<>>),
      Element("P", TextElement("T", "c")),
      TextElement("U", "x"),
      WithAttributes,
      ChildWithAttributes,
      <<XmlError>> }

RECURSIVE Concat(_)
Concat(pieces) ==
    IF pieces = <<>> THEN <<>> ELSE Head(pieces) \o Concat(Tail(pieces))

\* <Envelope> pieces </Envelope>, of 1 to MaxPieces pieces
Documents ==
    { Element("Envelope", Concat(pieces)) :
        pieces \in UNION { [1..n -> Pieces] : n \in 1..MaxPieces } }

\* a caller invokes parse_soap on the arguments at hand
ParseSoap ==
    /\ parsed.kind = "Pending"
    /\ parsed' = Ok(parse_soap(arg_response, arg_element, arg_parent,
                                arg_single, arg_attributes))
    /\ UNCHANGED <<arg_response, arg_element, arg_parent, arg_single,
                   arg_attributes>>
    /\ UNCHANGED <<build_vars, send_vars, discover_vars, registry_vars,
                   csend_vars, classify_vars, pair_vars, caps_vars>>

(***************************************************************************)
(* The registry file and Client::new (client.rs).                          *)
(***************************************************************************)
\* Device::new(): the Device of client.rs (device.rs), of which the registry
\* keeps the control URL and the stream URI
DeviceNew ==
    [url_onvif |-> "http://127.0.0.1/",
     url_rtsp |-> None, invalid_after_connect |-> None, timeout |-> None,
     video_codec |-> None, audio_codec |-> None, video_dim |-> None,
     h264_profile |-> None,
     manufacturer |-> None, model |-> None, firmware_version |-> None,
     serial_number |-> None, hardware_id |-> None,
     service_media |-> None, service_event |-> None,
     service_analytics |-> None, service_ptz |-> None, service_image |-> None]

\* str::split(sep) for a one-character sep: the text between the separators
split_on(s, sep) ==
    LET at == SelectSeq([i \in 1..Len(s) |-> i], LAMBDA i : SubSeq(s, i, i) = sep)
        n  == Len(at)
    IN  [k \in 1..(n + 1) |->
            SubSeq(s, IF k = 1 THEN 1 ELSE at[k - 1] + 1,
                      IF k = n + 1 THEN Len(s) ELSE at[k] - 1)]

\* str::lines(): the text between line feeds, without a last empty line
lines(s) ==
    LET parts == split_on(s, "\n") IN
    IF parts[Len(parts)] = "" THEN SubSeq(parts, 1, Len(parts) - 1) ELSE parts

ErrEmptyList == "[OnvifClient][file_save] Provided empty list of devices"
ErrWrite == "write_all: no space left on device"
ErrOpen == "open: no such file or directory"
ErrFileEmpty == "[OnvifClient][file_check] File found, but empty"
ErrNoDevices == "[OnvifClient][file_check] File found, but no devices"
ErrNoLines == "[OnvifClient][file_check] Error parsing devices"

\* variant: the two URLs are written in each other's place
device_line_swapped(device) ==
    "IP: " \o device.url_onvif \o " ONVIF: "
           \o (IF IsSome(device.url_rtsp) THEN device.url_rtsp[1] ELSE "")

\* format!("IP: {} ONVIF: {}", url_rtsp, device.url_onvif)
device_line(device) ==
    "IP: " \o (IF IsSome(device.url_rtsp) THEN device.url_rtsp[1] ELSE "")
           \o " ONVIF: " \o device.url_onvif

\* the `for device in devices` loop of file_save
RECURSIVE file_contents(_, _, _)
file_contents(devices, i, contents) ==
    IF i > Len(devices) THEN contents
    ELSE file_contents(devices, i + 1, contents \o device_line(devices[i]) \o "\n")

\* file_save: what it returns and what the file is afterwards; create_ok and
\* write_ok tell whether File::create and write_all succeed
file_save(devices, before, create_ok, write_ok) ==
    IF Len(devices) = 0 THEN [ret |-> Err(ErrEmptyList), file |-> before]
    ELSE IF ~create_ok THEN [ret |-> Panic, file |-> before]
    ELSE IF ~write_ok THEN [ret |-> Err(ErrWrite), file |-> Some("")]
    ELSE [ret |-> Ok(<<>>), file |-> Some(file_contents(devices, 1, ""))]

\* one line of the file: the closures of file_load's map chain
load_line(line) ==
    LET tokens == split_on(line, " ")
        vals   == [k \in 1..(Len(tokens) \div 2) |-> tokens[2 * k]]
    IN  IF Len(vals) < 1 THEN Panic
        ELSE IF vals[1] # "" /\ ~UrlParses(vals[1]) THEN Panic
        ELSE IF Len(vals) < 2 THEN Panic
        ELSE IF ~UrlParses(vals[2]) THEN Panic
        ELSE Ok([DeviceNew EXCEPT
                   !.url_rtsp = IF vals[1] = "" THEN None ELSE Some(vals[1]),
                   !.url_onvif = vals[2]])

\* file_load on the file as it is
file_load(f) ==
    IF f = None THEN Err(ErrOpen)
    ELSE IF Len(f[1]) = 0 THEN Err(ErrFileEmpty)
    ELSE IF ~Contains(f[1], "IP") THEN Err(ErrNoDevices)
    ELSE LET devices == [k \in 1..Len(lines(f[1])) |-> load_line(lines(f[1])[k])]
         IN  IF \E k \in 1..Len(devices) : devices[k].kind = "Panic" THEN Panic
             ELSE IF Len(devices) = 0 THEN Err(ErrNoLines)
             ELSE Ok([k \in 1..Len(devices) |-> devices[k].val])

\* parse_soap of client.rs: the first character data after the first start
\* tag of the element, "" if there is none
RECURSIVE client_parse_soap_loop(_, _, _, _, _, _)
client_parse_soap_loop(response, i, element_to_find, parent, element_found, parent_found) ==
    IF i > Len(response) THEN ""
    ELSE
      LET e == response[i] IN
      CASE e.t = "StartElement" ->
             LET pf == parent_found \/ e.name = parent[1]
             IN  client_parse_soap_loop(response, i + 1, element_to_find, parent,
                     element_found \/ (pf /\ e.name = element_to_find), pf)
        [] e.t = "Characters" ->
             IF element_found THEN e.chars
             ELSE client_parse_soap_loop(response, i + 1, element_to_find, parent,
                                         element_found, parent_found)
        [] e.t = "Err" -> ""
        [] OTHER ->
             client_parse_soap_loop(response, i + 1, element_to_find, parent,
                                    element_found, parent_found)

client_parse_soap(response, element_to_find, parent) ==
    client_parse_soap_loop(response, 1, element_to_find, parent, FALSE,
                           parent = None)

\* the `'read: loop` of Client::discover from its iteration i on: datagrams
\* are what the first receives return, every later receive times out; the
\* loop ends when try_times is 10, after 9 iterations and 10 probes in all
RECURSIVE Client_discover_loop(_, _, _, _)
Client_discover_loop(datagrams, i, found, check) ==
    IF i > Len(datagrams)
    THEN [ret |-> IF found = <<>> THEN Panic ELSE Ok(found), probes |-> 10]
    ELSE
      LET d == datagrams[i] IN
      IF Contains(check, d.addr)
      THEN Client_discover_loop(datagrams, i + 1, found, check)
      ELSE LET xaddrs == client_parse_soap(d.body, "XAddrs", None) IN
           IF ~UrlParses(xaddrs)
           THEN [ret |-> Err(ErrUrlParse), probes |-> 1 + i]
           ELSE Client_discover_loop(datagrams, i + 1,
                    Append(found, [DeviceNew EXCEPT !.url_onvif = xaddrs]),
                    check \o ":" \o d.addr)

\* Client::discover; bind_ok and send_ok tell whether UdpSocket::bind and
\* the first send_to succeed
Client_discover(bind_ok, send_ok, datagrams) ==
    IF ~bind_ok THEN [ret |-> Err(ErrBind), probes |-> 0]
    ELSE IF ~send_ok THEN [ret |-> Panic, probes |-> 0]
    ELSE Client_discover_loop(datagrams, 1, <<>>, "")

\* the Client value Client::new returns
NewClient(devices, device_file_exists) ==
    Ok([devices |-> devices, device_file_exists |-> device_file_exists])

\* Client::new on the file as it is: the client, the file afterwards, what
\* discover and file_save returned (Pending if not called) and the probes sent
Client_new(before, bind_ok, send_ok, datagrams, create_ok, write_ok) ==
    LET loaded == file_load(before)
        quiet(c) == [client |-> c, file |-> before, discover |-> Pending,
                     probes |-> 0, save |-> Pending, save_arg |-> <<>>]
    IN  IF loaded.kind = "Ok" THEN quiet(NewClient(loaded.val, TRUE))
        ELSE IF loaded.kind = "Panic" THEN quiet(Panic)
        ELSE
          LET find_devices == Client_discover(bind_ok, send_ok, datagrams)
              undone(c) == [client |-> c, file |-> before,
                            discover |-> find_devices.ret,
                            probes |-> find_devices.probes,
                            save |-> Pending, save_arg |-> <<>>]
          IN  IF find_devices.ret.kind = "Err" THEN undone(NewClient(<<>>, FALSE))
              ELSE IF find_devices.ret.kind = "Panic" THEN undone(Panic)
              ELSE
                LET devices == find_devices.ret.val
                    sv == file_save(devices, before, create_ok, write_ok)
                IN  [client   |-> IF sv.ret.kind = "Panic" THEN Panic
                                  ELSE NewClient(devices, FALSE),
                     file     |-> sv.file,
                     discover |-> find_devices.ret,
                     probes   |-> find_devices.probes,
                     save     |-> sv.ret,
                     save_arg |-> devices]

ErrNoClientDevices == "[OnvifClient][send] No devices available"

\* Client::send of client.rs on the devices and the file as they are, for the
\* device at device_index (counted from 0).  attempt: the outcome of the first
\* attempt that does not time out, Timeout if all four time out; body_ok:
\* whether resp.text() succeeds; create_ok, write_ok: as for file_save.
\* Gives the devices and the file afterwards and the value returned.
Client_send(devices, before, msg, device_index, attempt, body_ok, create_ok, write_ok) ==
    LET same(ret) == [devices |-> devices, file |-> before, ret |-> ret]
        at == device_index + 1
    IN  IF Len(devices) = 0 THEN same(Err(ErrNoClientDevices))
        \* self.devices[device_index] in the first iteration
        ELSE IF device_index >= Len(devices) THEN same(Panic)
        \* `if fail { panic!(..) }`
        ELSE IF attempt.kind = "Timeout" THEN same(Panic)
        ELSE IF attempt.kind = "Connect" THEN same(Err(ErrConnect))
        ELSE IF ~body_ok THEN same(Err(ErrBody))
        ELSE
          LET response == attempt.resp.body
              find(element, parent) == client_parse_soap(response, element, parent)
              this_device == devices[at]
          IN
          CASE msg = "Discovery" -> same(Ok(""))
            [] msg = "Capabilities" ->
                 [devices |-> [devices EXCEPT ![at] =
                      [this_device EXCEPT
                          !.service_media     = Some(find("XAddr", Some("Media"))),
                          !.service_event     = Some(find("XAddr", Some("Events"))),
                          !.service_analytics = Some(find("XAddr", Some("Analytics"))),
                          !.service_ptz       = Some(find("XAddr", Some("PTZ"))),
                          !.service_image     = Some(find("XAddr", Some("Imaging")))]],
                  file |-> before,
                  ret |-> Ok(find("XAddr", Some("Imaging")))]
            [] msg = "DeviceInfo" ->
                 [devices |-> [devices EXCEPT ![at] =
                      [this_device EXCEPT
                          !.firmware_version = Some(find("FirmwareVersion", None)),
                          !.serial_number    = Some(find("SerialNumber", None)),
                          !.hardware_id      = Some(find("HardwareId", None)),
                          !.model            = Some(find("Model", None)),
                          !.manufacturer     = Some(find("Manufacturer", None))]],
                  file |-> before,
                  ret |-> Ok(find("Manufacturer", None))]
            [] msg = "Profiles" ->
                 LET width  == ParseU16(find("Width", None))
                     height == ParseU16(find("Height", None))
                 IN  \* width.parse().unwrap(), height.parse().unwrap()
                     IF width = None \/ height = None THEN same(Panic)
                     ELSE
                       [devices |-> [devices EXCEPT ![at] =
                            [this_device EXCEPT
                                !.video_dim    = Some(<<width[1], height[1]>>),
                                !.audio_codec  = Some(find("Encoding", Some("AudioEncoderConfiguration"))),
                                !.h264_profile = Some(find("H264Profile", None)),
                                !.video_codec  = Some(find("Encoding", Some("VideoEncoderConfiguration")))]],
                        file |-> before,
                        ret |-> Ok(find("Encoding", Some("VideoEncoderConfiguration")))]
            [] msg = "GetStreamURI" ->
                 LET url_string == find("Uri", None) IN
                 \* url_string.parse()?
                 IF ~UrlParses(url_string) THEN same(Err(ErrUrlParse))
                 ELSE
                   LET written == [devices EXCEPT ![at] =
                           [this_device EXCEPT
                               !.url_rtsp              = Some(url_string),
                               !.invalid_after_connect = Some(find("InvalidAfterConnect", None)),
                               !.timeout               = Some(find("Timeout", None))]]
                       sv == file_save(written, before, create_ok, write_ok)
                   IN  [devices |-> written,
                        file |-> sv.file,
                        ret |-> IF sv.ret.kind = "Ok" THEN Ok(url_string) ELSE sv.ret]

\* the control URLs and stream URIs of the devices
RegistryDevices ==
    { [DeviceNew EXCEPT !.url_onvif = u, !.url_rtsp = r] :
        u \in { "http://192.168.1.5/onvif/device_service",
                "http://10.0.0.7:8080/onvif/device_service" },
        r \in { None, Some("rtsp://192.168.1.5:554/stream1") } }

\* the lists file_save may be given
DeviceLists == UNION { [1..n -> RegistryDevices] : n \in 0..MaxDevices }

\* what Client::discover may hear
HeardLists ==
    UNION { [1..n -> { [addr |-> "192.168.1.5:3702", body |-> ProbeMatchCamera],
                       [addr |-> "10.0.0.7:3702", body |-> ProbeMatchDoorbell],
                       [addr |-> "10.0.0.7:3702", body |-> ProbeMatchRelative] }]
            : n \in 0..MaxHeard }

\* whether File::create and write_all succeed: both, or one of them fails
FileSystems == {<<TRUE, TRUE>>, <<FALSE, TRUE>>, <<TRUE, FALSE>>}

\* the file a program start may find: absent, empty, without the marker,
\* with the marker and no device, with a device that has no URL for a stream,
\* or written by hand for a device without stream
InitialFiles ==
    { None,
      Some(""),
      Some("no devices yet\n"),
      Some("IP\n"),
      Some("IP: cam ONVIF: http://192.168.1.5/onvif/device_service\n"),
      Some("IP:  ONVIF: http://192.168.1.5/onvif/device_service\n") }

\* file_save is called on a list of devices, before the program is started
FileSave ==
    /\ starts = 0
    /\ save_ret.kind = "Pending"
    /\ \E devices \in DeviceLists, fs \in FileSystems :
         LET sv == file_save(devices, file, fs[1], fs[2]) IN
         /\ file' = sv.file
         /\ save_arg' = devices
         /\ save_ret' = sv.ret
    /\ load_ret' = Pending
    /\ UNCHANGED <<client, c_discover, c_probes, starts>>
    /\ UNCHANGED <<build_vars, send_vars, discover_vars, extractor_vars,
                   csend_vars, classify_vars, pair_vars, caps_vars>>

\* file_load is called
FileLoad ==
    /\ load_ret' = file_load(file)
    /\ UNCHANGED <<file, save_arg, save_ret, client, c_discover, c_probes, starts>>
    /\ UNCHANGED <<build_vars, send_vars, discover_vars, extractor_vars,
                   csend_vars, classify_vars, pair_vars, caps_vars>>

\* the state change of one Client::new call with the given outcomes
ClientNew(bind_ok, send_ok, datagrams, create_ok, write_ok) ==
    LET n == Client_new(file, bind_ok, send_ok, datagrams, create_ok, write_ok) IN
    /\ starts < MaxStarts
    /\ starts' = starts + 1
    /\ client' = n.client
    /\ file' = n.file
    /\ c_discover' = n.discover
    /\ c_probes' = n.probes
    /\ IF n.save.kind = "Pending"
       THEN /\ load_ret' = file_load(file)
            /\ UNCHANGED <<save_arg, save_ret>>
       ELSE /\ load_ret' = Pending
            /\ save_arg' = n.save_arg
            /\ save_ret' = n.save
    /\ UNCHANGED <<build_vars, send_vars, discover_vars, extractor_vars,
                   csend_vars, classify_vars, pair_vars, caps_vars>>

\* Client::new finds a registry it can load
ClientNewFromFile ==
    /\ file_load(file).kind = "Ok"
    /\ ClientNew(TRUE, TRUE, <<>>, TRUE, TRUE)

\* Client::new finds a registry on which file_load panics
ClientNewLoadPanic ==
    /\ file_load(file).kind = "Panic"
    /\ ClientNew(TRUE, TRUE, <<>>, TRUE, TRUE)

\* Client::new finds no registry it can load; discover cannot bind its socket
ClientNewBindError ==
    /\ file_load(file).kind = "Err"
    /\ ClientNew(FALSE, TRUE, <<>>, TRUE, TRUE)

\* Client::new finds no registry it can load; discover's first send_to fails
ClientNewProbeError ==
    /\ file_load(file).kind = "Err"
    /\ ClientNew(TRUE, FALSE, <<>>, TRUE, TRUE)

\* Client::new finds no registry it can load and discover runs its loop
ClientNewDiscover ==
    /\ file_load(file).kind = "Err"
    /\ \E datagrams \in HeardLists, fs \in FileSystems :
         ClientNew(TRUE, TRUE, datagrams, fs[1], fs[2])

\* the message types of client.rs
ClientMessages == {"Discovery", "Capabilities", "DeviceInfo", "Profiles", "GetStreamURI"}

\* the responses a device may give to Client::send
ClientResponses(msg) ==
    { Response(500, SoapFault) }
    \cup
    ( CASE msg = "Capabilities" -> { Response(200, CapabilitiesFull) }
        [] msg = "DeviceInfo"   -> { Response(200, DeviceInfoFull) }
        [] msg = "Profiles"     -> { Response(200, ProfilesFull) }
        [] msg = "GetStreamURI" -> { Response(200, StreamUriFull) }
        [] OTHER                -> { } )

\* the clients Client::send is called on: with no device, one and two
SendClients ==
    LET d1 == [DeviceNew EXCEPT !.url_onvif = "http://192.168.1.5/onvif/device_service"]
        d2 == [DeviceNew EXCEPT !.url_onvif = "http://10.0.0.7:8080/onvif/device_service"]
    IN  { NewClient(<<>>, FALSE), NewClient(<<d1>>, FALSE), NewClient(<<d1, d2>>, FALSE) }

\* the state change of one Client::send call with the given outcomes
ClientSend(msg, device_index, attempt, body_ok, create_ok, write_ok) ==
    LET n == Client_send(client.val.devices, file, msg, device_index, attempt,
                         body_ok, create_ok, write_ok)
    IN
    /\ client.kind = "Ok"
    /\ c_send_ret.kind # "Panic"
    /\ c_sends < MaxSends
    /\ c_sends' = c_sends + 1
    /\ client' = [client EXCEPT !.val.devices = n.devices]
    /\ file' = n.file
    /\ c_send_ret' = n.ret
    /\ UNCHANGED <<save_arg, save_ret, load_ret, c_discover, c_probes, starts>>
    /\ UNCHANGED <<build_vars, send_vars, discover_vars, extractor_vars,
                   classify_vars, pair_vars, caps_vars>>

\* Client::send is called and all its attempts time out
ClientSendTimeout ==
    \E msg \in ClientMessages, device_index \in 0..1 :
        ClientSend(msg, device_index, Timeout, TRUE, TRUE, TRUE)

\* Client::send is called and the connection fails
ClientSendConnectError ==
    \E msg \in ClientMessages, device_index \in 0..1 :
        ClientSend(msg, device_index, ConnectError, TRUE, TRUE, TRUE)

\* Client::send is called and the body of the response cannot be read
ClientSendBodyError ==
    \E msg \in ClientMessages, device_index \in 0..1 :
        \E resp \in ClientResponses(msg) :
            ClientSend(msg, device_index, Answered(resp), FALSE, TRUE, TRUE)

\* Client::send is called and reads the response
ClientSendResponse ==
    \E msg \in ClientMessages, device_index \in 0..1, fs \in FileSystems :
        \E resp \in ClientResponses(msg) :
            ClientSend(msg, device_index, Answered(resp), TRUE, fs[1], fs[2])

(***************************************************************************)
(* Specifications.                                                         *)
(***************************************************************************)
InitBuild ==
    /\ stage = 0
    /\ phase = "idle"
    /\ outcome = "None"
    /\ build_err = ""
    /\ builds = 0
    /\ calls = <<>>
    /\ send_msg = ""
    /\ send_url = ""
    /\ try_times = 0
    /\ wire = <<>>
    /\ send_ret = Pending
    /\ failure = NoFailure

InitDiscover ==
    /\ d_pc = "Idle"
    /\ try_send = 0
    /\ try_recv = 0
    /\ devices_found = <<>>
    /\ devices_check = ""
    /\ sources = <<>>
    /\ probes = 0
    /\ recvs = 0
    /\ heard = <<>>
    /\ d_ret = Pending

\* parse_soap is not being called on its own
InitExtractor ==
    /\ arg_response = <<>>
    /\ arg_element = ""
    /\ arg_parent = None
    /\ arg_single = FALSE
    /\ arg_attributes = FALSE
    /\ parsed = Pending

\* no registry call was made yet
InitRegistry ==
    /\ save_arg = <<>>
    /\ save_ret = Pending
    /\ load_ret = Pending
    /\ client = Pending
    /\ c_discover = Pending
    /\ c_probes = 0
    /\ starts = 0

\* Client::send was not called yet
InitClientSend ==
    /\ c_sends = 0
    /\ c_send_ret = Pending

\* parse_device_type is not being called on its own
InitClassify ==
    /\ arg_dev_type = ""
    /\ classified = None

\* no tasks are running
InitPair ==
    /\ cams = <<>>
    /\ pipe = <<>>
    /\ inflight = <<>>
    /\ answered = <<>>

\* set_service_capabilities is not being called on its own
InitCaps ==
    /\ caps_response = <<>>
    /\ caps_ret = Pending

Init ==
    /\ cam \in {NewCamera(base) : base \in BaseDevices}
    /\ InitBuild
    /\ InitDiscover
    /\ InitExtractor
    /\ file = None
    /\ InitRegistry
    /\ InitClientSend
    /\ InitClassify
    /\ InitPair
    /\ InitCaps

\* a Camera and the build_all calls made on it
Next ==
    \/ BuildAll
    \/ SendTimeout
    \/ SendExhausted
    \/ SendConnectError
    \/ SendResponse
    \/ BodyError
    \/ SetCapabilities
    \/ SetDeviceInfo
    \/ SetProfiles
    \/ SetStreamUri
    \/ SetServices
    \/ PullMessages

Spec == Init /\ [][Next]_vars

\* one discover() call
NextDiscover ==
    \/ DiscoverBind
    \/ DiscoverBindError
    \/ Broadcast
    \/ BroadcastError
    \/ RecvTimeout
    \/ RecvError
    \/ RecvReply

SpecDiscover == Init /\ [][NextDiscover]_vars

\* one discover() call whose steps all complete: bind and send_to return, and
\* each receive either returns or is ended by its 2 s timeout
SpecDiscoverFair == SpecDiscover /\ WF_vars(NextDiscover)

\* the arguments parse_soap is called on
InitParse ==
    /\ cam \in {NewCamera(base) : base \in BaseDevices}
    /\ cam.base.device_type = "Camera"
    /\ InitBuild
    /\ InitDiscover
    /\ arg_response \in Documents
    /\ arg_element \in {"T", "X"}
    /\ arg_parent \in {None, Some("P"), Some("Q")}
    /\ arg_single \in BOOLEAN
    /\ arg_attributes \in BOOLEAN
    /\ parsed = Pending
    /\ file = None
    /\ InitRegistry
    /\ InitClientSend
    /\ InitClassify
    /\ InitPair
    /\ InitCaps

NextParse ==
    \/ ParseSoap

\* one call of parse_soap
SpecParse == InitParse /\ [][NextParse]_vars

InitFiles ==
    /\ cam \in {NewCamera(base) : base \in BaseDevices}
    /\ cam.base.device_type = "Camera"
    /\ InitBuild
    /\ InitDiscover
    /\ InitExtractor
    /\ file \in InitialFiles
    /\ InitRegistry
    /\ InitClientSend
    /\ InitClassify
    /\ InitPair
    /\ InitCaps

NextRegistry ==
    \/ FileSave
    \/ FileLoad
    \/ ClientNewFromFile
    \/ ClientNewLoadPanic
    \/ ClientNewBindError
    \/ ClientNewProbeError
    \/ ClientNewDiscover

\* the registry file over the starts of the program
SpecRegistry == InitFiles /\ [][NextRegistry]_vars

\* the Types string parse_device_type is called on
InitTypes ==
    /\ cam \in {NewCamera(base) : base \in BaseDevices}
    /\ cam.base.device_type = "Camera"
    /\ InitBuild
    /\ InitDiscover
    /\ InitExtractor
    /\ file = None
    /\ InitRegistry
    /\ InitClientSend
    /\ arg_dev_type \in TypesStrings
    /\ classified = None
    /\ InitPair
    /\ InitCaps

NextClassify ==
    \/ ParseDeviceType

\* one call of parse_device_type
SpecClassify == InitTypes /\ [][NextClassify]_vars

\* a client as Client::new returned it, before any Client::send
InitClient ==
    /\ cam \in {NewCamera(base) : base \in BaseDevices}
    /\ cam.base.device_type = "Camera"
    /\ InitBuild
    /\ InitDiscover
    /\ InitExtractor
    /\ file = None
    /\ save_arg = <<>>
    /\ save_ret = Pending
    /\ load_ret = Pending
    /\ client \in SendClients
    /\ c_discover = Pending
    /\ c_probes = 0
    /\ starts = 1
    /\ InitClientSend
    /\ InitClassify
    /\ InitPair
    /\ InitCaps

NextClientSend ==
    \/ ClientSendTimeout
    \/ ClientSendConnectError
    \/ ClientSendBodyError
    \/ ClientSendResponse

\* the Client::send calls made on a client
SpecClientSend == InitClient /\ [][NextClientSend]_vars

\* the camera and the doorbell, each handed to a task of its own
InitTasks ==
    /\ cam \in {NewCamera(base) : base \in BaseDevices}
    /\ cam.base.device_type = "Camera"
    /\ InitBuild
    /\ InitDiscover
    /\ InitExtractor
    /\ file = None
    /\ InitRegistry
    /\ InitClientSend
    /\ InitClassify
    /\ cams \in [Tasks -> {NewCamera(base) : base \in BaseDevices}]
    /\ cams[1].base.device_type = "Camera"
    /\ cams[2].base.device_type = "Doorbell"
    \* the log level is one for the process
    /\ \E log_info \in BOOLEAN :
          pipe = [t \in Tasks |-> [NewPipe EXCEPT !.log_info = log_info]]
    /\ inflight = [t \in Tasks |-> <<>>]
    /\ answered = [t \in Tasks |-> <<>>]
    /\ InitCaps

NextPair ==
    \/ \E t \in Tasks : TaskBuildAll(t)
    \/ \E t \in Tasks : TaskPost(t)
    \/ \E t \in Tasks : TaskExhausted(t)
    \/ \E t \in Tasks : TaskTimeout(t)
    \/ \E t \in Tasks : TaskConnectError(t)
    \/ \E t \in Tasks : TaskResponse(t)
    \/ \E t \in Tasks : TaskBodyError(t)
    \/ \E t \in Tasks : TaskStage(t)

\* two build_all calls running in two tasks
SpecPair == InitTasks /\ [][NextPair]_vars


(***************************************************************************)
(* CameraBuilder::set_service_capabilities, called on its own.             *)
(***************************************************************************)
\* the attributes an event service reports on its Capabilities element
CapabilityAttributes ==
    { Attribute("WSSubscriptionPolicySupport", "true"),
      Attribute("WSPullPointSupport", "true"),
      Attribute("WSPausableSubscriptionManagerInterfaceSupport", "false"),
      Attribute("MaxNotificationProducers", "10"),
      Attribute("MaxPullPoints", "5"),
      Attribute("PersistentNotificationStorage", "false"),
      Attribute("EventBrokerProtocols", "mqtt mqtts") }

\* the attribute lists of at most MaxAttributes different attributes
AttributeLists ==
    UNION { { l \in [1..n -> CapabilityAttributes] :
                \A i, j \in 1..n : i # j => l[i] # l[j] } : n \in 0..MaxAttributes }

ServiceCapabilitiesResponse(attributes) ==
    Element("GetServiceCapabilitiesResponse",
            <<StartElement("Capabilities", attributes), EndElement("Capabilities")>>)

\* the bodies a device answers GetServiceCapabilities with
CapabilitiesBodies ==
    { ServiceCapabilitiesResponse(l) : l \in AttributeLists } \cup {SoapFault}

\* client::send returned an error: `.await?` of line 138
ServiceCapabilitiesSendError ==
    /\ caps_ret.kind = "Pending"
    /\ \E err \in {ErrNoResponse, ErrConnect} : caps_ret' = Err(err)
    /\ UNCHANGED caps_response
    /\ UNCHANGED <<build_vars, send_vars, discover_vars, extractor_vars,
                   registry_vars, csend_vars, classify_vars, pair_vars>>

\* the body could not be read: `response.text().await?` of line 139
ServiceCapabilitiesBodyError ==
    /\ caps_ret.kind = "Pending"
    /\ caps_ret' = Err(ErrBody)
    /\ UNCHANGED caps_response
    /\ UNCHANGED <<build_vars, send_vars, discover_vars, extractor_vars,
                   registry_vars, csend_vars, classify_vars, pair_vars>>

\* the body was read and parsed
ServiceCapabilities ==
    /\ caps_ret.kind = "Pending"
    /\ caps_ret' = set_service_capabilities(caps_response)
    /\ UNCHANGED caps_response
    /\ UNCHANGED <<build_vars, send_vars, discover_vars, extractor_vars,
                   registry_vars, csend_vars, classify_vars, pair_vars>>

\* the body the event service will answer with
InitCapabilities ==
    /\ cam \in {NewCamera(base) : base \in BaseDevices}
    /\ cam.base.device_type = "Camera"
    /\ InitBuild
    /\ InitDiscover
    /\ InitExtractor
    /\ file = None
    /\ InitRegistry
    /\ InitClientSend
    /\ InitClassify
    /\ InitPair
    /\ caps_response \in CapabilitiesBodies
    /\ caps_ret = Pending

NextCapabilities ==
    \/ ServiceCapabilitiesSendError
    \/ ServiceCapabilitiesBodyError
    \/ ServiceCapabilities

\* one call of set_service_capabilities
SpecCapabilities == InitCapabilities /\ [][NextCapabilities]_vars

(***************************************************************************)
(* Properties of Camera::build_all and client::send, checked under Spec.   *)
(***************************************************************************)
Range(f) == {f[i] : i \in DOMAIN f}

\* the requests of the five stages, in stage order
FiveRequests ==
    <<"GetCapabilities", "GetDeviceInformation", "GetProfiles", "GetStreamUri",
      "GetServices">>

\* C1: build_all makes one send call per stage; the calls made so far are
\* always the first of GetCapabilities, GetDeviceInformation, GetProfiles,
\* GetStreamUri, GetServices, in that order and each to the camera's control
\* URL; none of the five is requested again later; a build_all in which no
\* stage failed has made all five; and the HTTP requests a call posts
\* (re-posted only after a timeout) are all that call's request.
C1_StageOrder ==
    /\ builds > 0 => Len(calls) = stage
    /\ \A i \in 1..Len(calls) :
          IF i <= 5
          THEN calls[i] = [request |-> FiveRequests[i], url |-> cam.base.url_onvif]
          ELSE calls[i].request \notin Range(FiveRequests)
    /\ (outcome = "Ok" \/ stage = 6) => Len(calls) >= 5
    /\ \A i \in 1..Len(wire) : wire[i] = calls[Len(calls)]

\* a build_all that returned Ok, whose last call needed a second attempt
C1_Witness ==
    /\ outcome = "Ok"
    /\ Len(calls) = 6
    /\ Len(wire) = 2

\* the lookups (element, parent) whose first value a stage expects
StageLookups(k) ==
    CASE k = 1 -> << <<"XAddr", Some("Media")>>, <<"XAddr", Some("Events")>>,
                    <<"XAddr", Some("Analytics")>>, <<"XAddr", Some("PTZ")>>,
                    <<"XAddr", Some("Imaging")>> >>
      [] k = 2 -> << <<"FirmwareVersion", None>>, <<"SerialNumber", None>>,
                    <<"HardwareId", None>>, <<"Model", None>>,
                    <<"Manufacturer", None>> >>
      [] k = 3 -> << <<"Width", None>>, <<"Height", None>>,
                    <<"Encoding", Some("VideoEncoderConfiguration")>>,
                    <<"Encoding", Some("AudioEncoderConfiguration")>>,
                    <<"H264Profile", None>> >>
      [] k = 4 -> << <<"InvalidAfterConnect", None>>, <<"Timeout", None>>,
                    <<"Uri", None>> >>
      [] OTHER -> <<>>

\* the extractor returns an empty list for some field stage k expects
LacksField(k, body) ==
    \E i \in 1..Len(StageLookups(k)) :
        parse_soap(body, StageLookups(k)[i][1], StageLookups(k)[i][2], TRUE, FALSE) = <<>>

\* build_all ended in stage k after the body of that stage's response was parsed
EndedAfterParsing(k) ==
    /\ stage = k
    /\ phase = "idle"
    /\ send_ret.kind = "Ok"
    /\ build_err # ErrBody

\* C2: a response that lacks a field its stage expects never makes build_all
\* crash or return an error: build_all does not end in that stage.
C2_MissingFieldDegrades ==
    \A k \in 1..4 :
        (EndedAfterParsing(k) /\ LacksField(k, send_ret.val.body))
            => outcome \notin {"Panic", "Err"}

\* C3: a GetProfiles response with a Width and no Height does not end
\* build_all: the profile is stored and GetStreamUri is sent.
C3_WidthWithoutHeight ==
    ( /\ EndedAfterParsing(3)
      /\ parse_soap(send_ret.val.body, "Width", None, TRUE, FALSE) # <<>>
      /\ parse_soap(send_ret.val.body, "Height", None, TRUE, FALSE) = <<>> )
        => outcome # "Panic"

\* C4: once a send call of build_all has returned an error, build_all has
\* returned that error, in the stage whose call failed, and no send call was
\* made after the failed one.
C4_TransportErrorReturned ==
    failure # NoFailure =>
        /\ phase = "idle"
        /\ outcome = "Err"
        /\ build_err = failure.err
        /\ stage = failure.stage
        /\ Len(calls) = failure.calls

\* the send call of stage 2 gave up after its timeouts and build_all returned
C4_Witness ==
    /\ failure # NoFailure
    /\ failure.stage = 2
    /\ failure.err = ErrNoResponse
    /\ outcome = "Err"
    /\ cam.capabilities # DefaultCapabilities

\* C5: when stage 5 produced a services record without an event endpoint,
\* build_all returns Ok having sent nothing after GetServices.
C5_NoEventEndpointIsOk ==
    (EndedAfterParsing(5) /\ cam.services.event = None)
        => (outcome = "Ok" /\ Len(calls) = 5)

\* C6: the only request after stage 5 is one GetServiceCapabilities to the
\* event-service URL, and a build_all that returned Ok has populated the
\* camera's event capabilities.
C6_EventCapabilitiesStage ==
    /\ Len(calls) >= 6 =>
          /\ Len(calls) = 6
          /\ calls[6] = [request |-> "GetServiceCapabilities",
                         url |-> cam.services.event[1]]
    /\ (outcome = "Ok" /\ IsSome(cam.services.event))
          => cam.event_props # DefaultEventCapabilities

\* C7: a send call never posts more than 5 requests, and one that gave up
\* because every attempt timed out has posted exactly 5.
C7_FiveAttempts ==
    /\ Len(wire) <= 5
    /\ send_ret = Err(ErrNoResponse) => Len(wire) = 5

\* C8: a send call whose attempts all timed out returns an error value that
\* names the message type and the url of the request.
C8_ExhaustedErrorNamesRequest ==
    (try_times = SendTries /\ send_ret.kind # "Pending") =>
        /\ send_ret.kind = "Err"
        /\ Contains(send_ret.err, send_msg) \/ Contains(send_ret.err, soap_msg(send_msg))
        /\ Contains(send_ret.err, send_url)

\* C9: send never returns a response with a non-success HTTP status as Ok.
C9_StatusChecked ==
    send_ret.kind = "Ok" => send_ret.val.status \in 200..299

(***************************************************************************)
(* Properties of client::discover, checked under SpecDiscover.             *)
(***************************************************************************)
\* the entries of the device list that came from sender address a
EntriesFrom(a) == {i \in 1..Len(sources) : sources[i] = a}

NothingHeard ==
    /\ d_ret.kind # "Pending"
    /\ heard = <<>>
    /\ probes = 2
    /\ recvs = 10

\* C11: a discover call that received no reply in any receive attempt of
\* either round returns an error value to its caller.
C11_NoDevicesIsError ==
    NothingHeard => d_ret.kind = "Err"

\* a reply discover cannot make a Device of: no XAddrs, Types or Scopes text,
\* or an XAddrs value that is no URL
Unusable(body) ==
    LET xaddrs == parse_soap(body, "XAddrs", None, TRUE, FALSE) IN
    \/ xaddrs = <<>>
    \/ parse_soap(body, "Types", None, TRUE, FALSE) = <<>>
    \/ parse_soap(body, "Scopes", None, TRUE, FALSE) = <<>>
    \/ ~UrlParses(xaddrs[1])

\* C12: the receive attempt in which an unusable reply arrives does not end
\* the call and leaves the device list as it was; the call fails in that
\* attempt only when it was the last one and no device was found at all.
C12_UnusableReplySkipped ==
    [][ ( /\ Len(heard') = Len(heard) + 1
          /\ Unusable(heard'[Len(heard')].body) )
        => /\ devices_found' = devices_found
           /\ \/ d_ret' = Pending
              \/ d_ret' = Ok(devices_found)
              \/ recvs' = 10 /\ devices_found = <<>> ]_vars

\* C13: one discover call broadcasts the probe at most 2 times, makes at most
\* 5 receive attempts after each broadcast, and at most 10 in total.
C13_BoundedAttempts ==
    /\ probes <= 2
    /\ try_send <= 2
    /\ try_recv <= 5
    /\ recvs <= 5 * probes
    /\ recvs <= 10

\* both rounds ran to their last receive attempt, a reply was heard on the way
C13_Witness ==
    /\ probes = 2
    /\ recvs = 10
    /\ try_recv = 5
    /\ Len(heard) = 2
    /\ d_ret.kind = "Ok"

(***************************************************************************)
(* Properties of CameraBuilder::set_services, checked under Spec.          *)
(***************************************************************************)
\* the keyword the claim ties each Services field to
Fragment(field) ==
    CASE field = "analytics" -> "analytics"
      [] field = "event"     -> "event"
      [] field = "io"        -> "deviceIO"
      [] field = "imaging"   -> "imaging"
      [] field = "media"     -> "media_service"
      [] field = "media2"    -> "media2"
      [] field = "ptz"       -> "ptz"

\* the Services record expected for the list device_service, media_service,
\* events_service
ServicesOfExample ==
    [analytics |-> None, event |-> Some("http://cam/onvif/events_service"),
     io |-> None, imaging |-> None,
     media |-> Some("http://cam/onvif/media_service"), media2 |-> None,
     ptz |-> None]

\* C14: when stage 5 has parsed its response, the Services record assigned
\* to the camera holds in each populated field an XAddr of the response that
\* contains the field's fragment, and for the XAddr list device_service,
\* media_service, events_service it holds exactly media and event.
C14_ServicesClassified ==
    [][ ( /\ stage = 5
          /\ phase = "received"
          /\ ~(phase' = "idle" /\ build_err' = ErrBody) )
        => LET xaddrs == parse_soap(send_ret.val.body, "XAddr", None, FALSE, FALSE)
           IN  /\ \A field \in DOMAIN DefaultServices :
                     IsSome(cam'.services[field]) =>
                         /\ cam'.services[field][1] \in Range(xaddrs)
                         /\ Contains(cam'.services[field][1], Fragment(field))
               /\ xaddrs = << "http://cam/onvif/device_service",
                              "http://cam/onvif/media_service",
                              "http://cam/onvif/events_service" >>
                     => cam'.services = ServicesOfExample ]_vars

\* stage 5 stored the record of the example list and build_all went on
C14_Witness ==
    /\ cam.services = ServicesOfExample
    /\ stage = 6

(***************************************************************************)
(* Properties of utils::parse_soap, checked under SpecParse.               *)
(***************************************************************************)
Indices(doc) == [i \in 1..Len(doc) |-> i]

\* the document has no malformed token
WellFormed(doc) == \A i \in 1..Len(doc) : doc[i].t # "Err"

\* the start tag at i is in the parent's scope: no parent was asked for, or a
\* start tag with the parent's name stands at or before i
InScope(doc, i, p) ==
    \/ p = None
    \/ \E j \in 1..i : doc[j].t = "StartElement" /\ doc[j].name = p[1]

\* the start tags of the target elements in the parent's scope, in document
\* order
Occurrences(doc, target, p) ==
    SelectSeq(Indices(doc),
              LAMBDA i : /\ doc[i].t = "StartElement"
                         /\ doc[i].name = target
                         /\ InScope(doc, i, p))

\* the end tag of the element that starts at i
EndOf(doc, i) ==
    CHOOSE j \in (i + 1)..Len(doc) :
        /\ doc[j].t = "EndElement"
        /\ doc[j].name = doc[i].name
        /\ \A k \in (i + 1)..(j - 1) :
              ~(doc[k].t = "EndElement" /\ doc[k].name = doc[i].name)

\* the text of the element that starts at i: its character data, "" if none
TextOf(doc, i) ==
    LET runs == SelectSeq(SubSeq(doc, i + 1, EndOf(doc, i) - 1),
                          LAMBDA e : e.t = "Characters")
    IN  IF runs = <<>> THEN "" ELSE runs[1].chars

\* C15: on a well-formed document with N target elements in the parent's
\* scope, first-text-only mode returns the text of the first of them and
\* nothing else, and all-matching mode returns the N texts in document order.
C15_OneValuePerOccurrence ==
    ( /\ parsed.kind = "Ok"
      /\ ~arg_attributes
      /\ WellFormed(arg_response) )
    => LET occ == Occurrences(arg_response, arg_element, arg_parent)
       IN  IF arg_single
           THEN occ # <<>> => parsed.val = <<TextOf(arg_response, occ[1])>>
           ELSE parsed.val = [k \in 1..Len(occ) |-> TextOf(arg_response, occ[k])]

\* the document has a start tag with this local name
HasElement(doc, name) ==
    \E i \in 1..Len(doc) : doc[i].t = "StartElement" /\ doc[i].name = name

\* C16: parse_soap returns the empty list when the document has no target
\* element, or when a parent is given that the document does not have, in
\* every mode.
C16_NoMatchIsEmpty ==
    ( /\ parsed.kind = "Ok"
      /\ \/ ~HasElement(arg_response, arg_element)
         \/ arg_parent # None /\ ~HasElement(arg_response, arg_parent[1]) )
    => parsed.val = <<>>

\* attribute mode returned nothing for a parent the document lacks, although
\* the document has a target element with attributes
C16_Witness ==
    /\ parsed = Ok(<<>>)
    /\ arg_attributes
    /\ arg_parent = Some("Q")
    /\ arg_element = "T"
    /\ \E i \in 1..Len(arg_response) :
           /\ arg_response[i].t = "StartElement"
           /\ arg_response[i].name = "T"
           /\ arg_response[i].attributes # <<>>

\* the index of the first malformed token, Len + 1 if there is none
FirstError(doc) ==
    IF WellFormed(doc) THEN Len(doc) + 1
    ELSE CHOOSE k \in 1..Len(doc) :
             doc[k].t = "Err" /\ \A j \in 1..(k - 1) : doc[j].t # "Err"

\* C17: in attribute mode, when the scan reaches a target element in scope,
\* the result is that element's attributes, one string name=value each, in
\* attribute order; and no character data is ever returned in this mode.
C17_AttributesOfFirstMatch ==
    ( /\ parsed.kind = "Ok"
      /\ arg_attributes )
    => LET occ == Occurrences(SubSeq(arg_response, 1, FirstError(arg_response) - 1),
                              arg_element, arg_parent)
       IN  IF occ = <<>>
           THEN parsed.val = <<>>
           ELSE LET attrs == arg_response[occ[1]].attributes
                IN  parsed.val =
                        [k \in 1..Len(attrs) |-> attrs[k].name \o "=" \o attrs[k].value]

\* the character data that stands before position k
TextsBefore(doc, k) ==
    {doc[i].chars : i \in {j \in 1..(k - 1) : doc[j].t = "Characters"}}

\* C18: on a document with a malformed token parse_soap returns what it
\* returns on the part before the first malformed token, and every text
\* value it returns stands before that token.
C18_StopsAtMalformedToken ==
    ( /\ parsed.kind = "Ok"
      /\ ~WellFormed(arg_response) )
    => LET k == FirstError(arg_response)
       IN  /\ parsed.val = parse_soap(SubSeq(arg_response, 1, k - 1), arg_element,
                                      arg_parent, arg_single, arg_attributes)
           /\ ~arg_attributes => Range(parsed.val) \subseteq TextsBefore(arg_response, k)

\* all-matching mode returned the one value before the malformed token of a
\* document that has a target element with text after it
C18_Witness ==
    /\ parsed = Ok(<<"a">>)
    /\ ~arg_single
    /\ ~arg_attributes
    /\ arg_element = "T"
    /\ arg_response =
          Element("Envelope",
                  TextElement("T", "a") \o <<XmlError>> \o TextElement("T", "b"))

(***************************************************************************)
(* Properties of the registry and Client::new, checked under SpecRegistry. *)
(***************************************************************************)
\* C19: what file_load returns from the file a file_save call wrote is a
\* list of the saved list's length whose devices have, position by position,
\* the saved control URL and the saved stream URI or none as saved.
C19_RoundTrip ==
    (save_ret.kind = "Ok" /\ load_ret.kind # "Pending")
    => /\ Len(save_arg) > 0
       /\ load_ret.kind = "Ok"
       /\ Len(load_ret.val) = Len(save_arg)
       /\ \A i \in 1..Len(save_arg) :
             /\ load_ret.val[i].url_onvif = save_arg[i].url_onvif
             /\ load_ret.val[i].url_rtsp = save_arg[i].url_rtsp

\* two devices, the first with a stream URI and the second without, were
\* saved and loaded
C19_Witness ==
    /\ save_ret.kind = "Ok"
    /\ load_ret.kind = "Ok"
    /\ Len(save_arg) = 2
    /\ IsSome(save_arg[1].url_rtsp)
    /\ save_arg[2].url_rtsp = None
    /\ Len(load_ret.val) = 2

\* the file is absent, empty or without the IP marker
Unloadable(f) ==
    \/ f = None
    \/ f = Some("")
    \/ f # None /\ ~Contains(f[1], "IP")

\* C20: in every Client::new call discover is called exactly when file_load
\* did not succeed, which is so for a file that is absent, empty or without
\* the marker; after a successful load no probe was sent and the client holds
\* the loaded list; and the call ends in a panic only when discover did.
C20_DiscoverIffLoadFails ==
    [][ starts' = starts + 1
        => LET loaded == file_load(file)
           IN  /\ Unloadable(file) => loaded.kind = "Err"
               /\ (c_discover'.kind # "Pending") <=> (loaded.kind # "Ok")
               /\ loaded.kind = "Ok" =>
                     /\ c_probes' = 0
                     /\ client' = NewClient(loaded.val, TRUE)
               /\ client'.kind = "Panic" => c_discover'.kind = "Panic" ]_vars

(***************************************************************************)
(* Frame and stage properties of build_all, checked under Spec.            *)
(***************************************************************************)
\* C21: no step of build_all, whether the run goes on, succeeds or fails at
\* any stage, changes the bare Device of the camera: its control URL, its
\* device type and its scopes stay what they were before the call.
C21_BaseUnchanged ==
    [][ /\ cam'.base.url_onvif = cam.base.url_onvif
        /\ cam'.base.device_type = cam.base.device_type
        /\ cam'.base.scopes = cam.base.scopes ]_vars

\* a run on the doorbell failed in stage 3 after stages 1 and 2 had assigned
\* their sub-records
C21_Witness ==
    /\ outcome \in {"Err", "Panic"}
    /\ stage = 3
    /\ cam.capabilities # DefaultCapabilities
    /\ cam.device_info # DefaultDeviceInfo
    /\ cam.base \in BaseDevices
    /\ cam.base.device_type = "Doorbell"

\* the five categories set_capabilities looks up and the field of each
Categories ==
    << <<"Media", "url_media">>, <<"Events", "url_events">>,
       <<"Analytics", "url_analytics">>, <<"PTZ", "url_ptz">>,
       <<"Imaging", "url_imaging">> >>

\* the XAddr under the category element of the body: None if the body has no
\* such category or the category has no XAddr
XAddrUnder(body, category) ==
    LET cats == SelectSeq(Indices(body),
                          LAMBDA i : /\ body[i].t = "StartElement"
                                     /\ body[i].name = category)
    IN  IF cats = <<>> THEN None
        ELSE LET i == cats[1]
                 xs == SelectSeq(Indices(body),
                                 LAMBDA j : /\ i < j
                                            /\ j < EndOf(body, i)
                                            /\ body[j].t = "StartElement"
                                            /\ body[j].name = "XAddr")
             IN  IF xs = <<>> THEN None ELSE Some(TextOf(body, xs[1]))

\* a well-formed GetCapabilities response whose XAddrs are URLs
UsableCapabilities(body) ==
    /\ WellFormed(body)
    /\ \E i \in 1..Len(body) :
          body[i].t = "StartElement" /\ body[i].name = "Capabilities"
    /\ \A c \in 1..Len(Categories) :
          LET x == XAddrUnder(body, Categories[c][1])
          IN  x # None => UrlParses(x[1])

\* C23: when stage 1 parses a well-formed GetCapabilities response, the stage
\* succeeds and each of the five URLs of the capabilities sub-record is the
\* XAddr under its own category element, absent exactly when the response
\* lacks that category.
C23_CategoriesIndependent ==
    [][ ( /\ stage = 1
          /\ phase = "received"
          /\ ~(outcome' = "Err" /\ build_err' = ErrBody)
          /\ UsableCapabilities(send_ret.val.body) )
        => /\ outcome' \notin {"Panic", "Err"}
           /\ \A c \in 1..Len(Categories) :
                 cam'.capabilities[Categories[c][2]]
                     = XAddrUnder(send_ret.val.body, Categories[c][1]) ]_vars

C25_DeviceTypeOfTypes ==
    classified # None
    => LET transmitter == Contains(arg_dev_type, "NetworkVideoTransmitter")
           doorbell    == Contains(arg_dev_type, "Doorbell")
       IN  /\ classified[1] \in {"Camera", "Doorbell", "Unknown"}
           /\ classified[1] = "Camera" <=> transmitter
           /\ classified[1] = "Doorbell" <=> (~transmitter /\ doorbell)
           /\ classified[1] = "Unknown" <=> (~transmitter /\ ~doorbell)

\* a Types string that names the doorbell before the transmitter was
\* classified a Camera
C25_Witness ==
    /\ classified = Some("Camera")
    /\ arg_dev_type = "dn:Doorbell dn:NetworkVideoTransmitter"

(***************************************************************************)
(* Properties of Client::send (client.rs), checked under SpecClientSend.   *)
(***************************************************************************)
\* C26: a send call, whether it returns a value, returns an error or
\* panics, leaves every field of every Device record as it was before the
\* call.
C26_SendChangesNoDevice ==
    [][ c_sends' = c_sends + 1
        => client'.val.devices = client.val.devices ]_vars

(***************************************************************************)
(* Properties of the attempts of client::send, checked under Spec.         *)
(***************************************************************************)
\* C27: a send call posts a further request only while it has not returned,
\* that is after attempts that all timed out; an attempt that is answered
\* ends the call with that very response as the returned value, whatever the
\* response says, and an attempt on which the connection fails ends the call
\* and build_all with that error; neither posts a request after its own.
C27_RetryOnlyAfterTimeout ==
    [][ /\ (wire' # wire /\ wire' # <<>>)
           => /\ phase = "sending"
              /\ send_ret = Pending
              /\ wire' = Append(wire, Request(send_msg, send_url))
        /\ \A resp \in Responses(send_msg) :
              (~gives_up(try_times + 1) /\ SendIteration(Answered(resp)))
              => /\ send_ret' = Ok(resp)
                 /\ phase' = "received"
                 /\ calls' = calls
        /\ (~gives_up(try_times + 1) /\ SendIteration(ConnectError))
           => /\ send_ret' = Err(ErrConnect)
              /\ phase' = "idle"
              /\ outcome' = "Err"
              /\ build_err' = ErrConnect
              /\ calls' = calls ]_vars

\* after two attempts that timed out, the third was answered by a fault and
\* send returned that response
C27_Witness ==
    /\ phase = "received"
    /\ Len(wire) = 3
    /\ send_ret = Ok(Response(500, SoapFault))

(***************************************************************************)
(* The course of a discover() call, checked under SpecDiscoverFair.        *)
(***************************************************************************)
\* the moves of a discover() call; binding the socket is the step that
\* leaves Idle
DiscoverMoves ==
    { <<"Idle", "Probing">>, <<"Idle", "Failed">>,
      <<"Probing", "Collecting">>, <<"Probing", "Failed">>,
      <<"Collecting", "Probing">>, <<"Collecting", "Done">>,
      <<"Collecting", "Failed">> }

\* C28: a discover() call moves from Idle through binding to Probing, from
\* Probing to Collecting and, for the second round, back to Probing, and ends
\* in Done or Failed, where nothing happens any more.  A probe is broadcast
\* only on the bound socket; a receive is attempted only after the probe of
\* its round was broadcast; a call whose bind or broadcast failed is Failed
\* and receives nothing further; and every call reaches Done or Failed.
C28_DiscoverStateMachine ==
    /\ [][ /\ d_pc' # d_pc => <<d_pc, d_pc'>> \in DiscoverMoves
           /\ d_pc \in {"Done", "Failed"} => UNCHANGED discover_vars
           /\ probes' # probes
              => (d_pc = "Probing" /\ probes' = probes + 1 /\ d_pc' = "Collecting")
           /\ recvs' # recvs
              => /\ d_pc = "Collecting"
                 /\ recvs' = recvs + 1
                 /\ probes = try_send
                 /\ probes >= 1
                 /\ recvs = RecvTries * (probes - 1) + try_recv
                 /\ try_recv < RecvTries ]_vars
    /\ [](d_pc = "Idle" => (probes = 0 /\ recvs = 0))
    /\ []((d_ret = Err(ErrBind) \/ d_ret = Err(ErrSendTo))
            => /\ d_pc = "Failed"
               /\ d_ret = Err(ErrBind) => (probes = 0 /\ recvs = 0)
               /\ recvs = RecvTries * probes)
    /\ []((d_pc \in {"Done", "Failed"}) <=> (d_ret # Pending))
    /\ <>(d_pc \in {"Done", "Failed"})

\* the broadcast of the second round failed after the five receive attempts
\* of the first
C28_Witness ==
    /\ d_pc = "Failed"
    /\ d_ret = Err(ErrSendTo)
    /\ probes = 1
    /\ try_send = 2
    /\ recvs = 5

(***************************************************************************)
(* Properties of two concurrent build_all calls, checked under SpecPair.   *)
(***************************************************************************)
\* the camera build_all leaves when it runs alone on camera c from stage k
\* on and its stages are given the inputs in order
RECURSIVE RunAlone(_, _, _, _)
RunAlone(c, k, inputs, log_info) ==
    IF inputs = <<>> THEN c
    ELSE LET e == Head(inputs)
             r == IF e.ret.kind = "Err" THEN e.ret
                  ELSE IF ~e.body_ok THEN Err(ErrBody)
                  ELSE stage_fn(k, e.ret.val.body, log_info)
             g == build_all(c, k, r)
         IN  IF g.go = "send"
             THEN RunAlone(g.cam, g.stage, Tail(inputs), log_info)
             ELSE g.cam

\* the URLs task t takes from its own camera
OwnUrls(t) ==
    {cams[t].base.url_onvif}
    \cup (IF IsSome(cams[t].services.event) THEN {cams[t].services.event[1]} ELSE {})

\* C22: under every interleaving of the steps of the two tasks, the camera of
\* each task is at every moment the camera its build_all would have produced
\* alone from the responses that task has received; a step of one task
\* changes neither the camera nor the progress, requests or responses of
\* the other; and every request of a task goes to a URL of its own camera.
C22_PipelinesIndependent ==
    /\ [](\A t \in Tasks :
            cams[t] = RunAlone(NewCamera(cams[t].base), 1, answered[t],
                               pipe[t].log_info))
    /\ [](\A t \in Tasks : \A i \in 1..Len(inflight[t]) :
            inflight[t][i].url \in OwnUrls(t))
    /\ [][ \A t \in Tasks : \A u \in Tasks \ {t} :
             pipe'[t] # pipe[t]
             => /\ cams'[u] = cams[u]
                /\ pipe'[u] = pipe[u]
                /\ inflight'[u] = inflight[u]
                /\ answered'[u] = answered[u] ]_vars

\* task 1 has gone through all its stages while task 2 is waiting for the
\* response of its stage 3
C22_Witness ==
    /\ pipe[1].at = "done"
    /\ pipe[1].outcome = "Ok"
    /\ cams[1].services # DefaultServices
    /\ pipe[2].at = "awaiting"
    /\ pipe[2].stage = 3
    /\ cams[2].device_info # DefaultDeviceInfo
    /\ cams[2].profiles = DefaultProfiles

\* C29: a task has at most one request outstanding; it posts a request only
\* when none is outstanding, and the request is that of its current stage,
\* all earlier stages having received their responses and assigned their
\* sub-records.
C29_OneRequestOutstanding ==
    /\ [](\A t \in Tasks : Len(inflight[t]) <= 1)
    /\ [][ \A t \in Tasks :
             (inflight'[t] # inflight[t] /\ inflight'[t] # <<>>)
             => LET p == pipe[t] IN
                /\ inflight[t] = <<>>
                /\ inflight'[t] = <<Request(StageMsg(p.stage), p.url)>>
                /\ Len(answered[t]) = p.stage - 1
                /\ \A k \in 1..(p.stage - 1) :
                      LET e == answered[t][k] IN
                      /\ e.ret.kind = "Ok"
                      /\ e.body_ok
                      /\ cams[t] = assign(cams[t], k,
                             stage_fn(k, e.ret.val.body, p.log_info).val) ]_vars

\* the request of stage 4 is outstanding after a first attempt of that
\* stage had timed out
C29_Witness ==
    /\ pipe[1].stage = 4
    /\ pipe[1].at = "awaiting"
    /\ pipe[1].try_times = 2
    /\ Len(inflight[1]) = 1
    /\ Len(answered[1]) = 3

(***************************************************************************)
(* The parent scope of utils::parse_soap, checked under SpecParse.         *)
(***************************************************************************)
\* the first start tag with the parent's name, Len + 1 if there is none
FirstParent(doc, p) ==
    LET at == SelectSeq(Indices(doc),
                        LAMBDA i : doc[i].t = "StartElement" /\ doc[i].name = p)
    IN  IF at = <<>> THEN Len(doc) + 1 ELSE at[1]

\* the character data at i lies in a target element that starts at or after
\* from
InTarget(doc, i, target, from) ==
    \E j \in from..(i - 1) :
        /\ doc[j].t = "StartElement"
        /\ doc[j].name = target
        /\ \A k \in (j + 1)..(i - 1) :
              ~(doc[k].t = "EndElement" /\ doc[k].name = target)

\* the texts of the target elements that start at or after from, in
\* document order
TextsFrom(doc, target, from) ==
    LET at == SelectSeq(Indices(doc),
                        LAMBDA i : /\ doc[i].t = "Characters"
                                   /\ InTarget(doc, i, target, from))
    IN  [k \in 1..Len(at) |-> doc[at[k]].chars]

\* C30: with a parent given, the texts parse_soap returns from a well-formed
\* document are those of the target elements that start at or after the
\* first start tag with the parent's name: none from a target element that
\* starts before it, and all of the later ones, wherever they lie (the first
\* of them only, in first-text-only mode).
C30_StickyParentScope ==
    ( /\ parsed.kind = "Ok"
      /\ arg_parent # None
      /\ ~arg_attributes
      /\ WellFormed(arg_response) )
    => LET texts == TextsFrom(arg_response, arg_element,
                              FirstParent(arg_response, arg_parent[1]))
       IN  IF arg_single
           THEN parsed.val = IF texts = <<>> THEN <<>> ELSE <<texts[1]>>
           ELSE parsed.val = texts

\* <T>a</T> <P><T>c</T></P> <T>b</T> with parent P: the T before P is left
\* out, the T in P and the T after P's end tag are returned
C30_Witness ==
    /\ arg_response = Element("Envelope",
           TextElement("T", "a") \o Element("P", TextElement("T", "c"))
           \o TextElement("T", "b"))
    /\ arg_element = "T"
    /\ arg_parent = Some("P")
    /\ ~arg_single
    /\ ~arg_attributes
    /\ parsed = Ok(<<"c", "b">>)


(***************************************************************************)
(* Properties of the stages on responses with repeated elements, checked   *)
(* under Spec.                                                             *)
(***************************************************************************)
\* the first Profiles element of a GetProfiles response, <<>> if it has none
FirstProfile(body) ==
    LET starts_at == SelectSeq(Indices(body),
                               LAMBDA i : /\ body[i].t = "StartElement"
                                          /\ body[i].name = "Profiles")
    IN  IF starts_at = <<>> THEN <<>>
        ELSE SubSeq(body, starts_at[1], EndOf(body, starts_at[1]))

\* the texts of the elements called name that lie inside an element called
\* parent of the document (anywhere in the document when parent is None)
TextsUnder(doc, name, parent) ==
    { TextOf(doc, i) : i \in
        { i \in 1..Len(doc) :
            /\ doc[i].t = "StartElement"
            /\ doc[i].name = name
            /\ \/ parent = None
               \/ \E j \in 1..(i - 1) :
                     /\ doc[j].t = "StartElement"
                     /\ doc[j].name = parent[1]
                     /\ i < EndOf(doc, j) } }

\* C31: when stage 3 succeeds on a well-formed GetProfiles response, every
\* stored profile field is a value of the first profile of the response in
\* document order: the video dimensions are a Width and a Height of the first
\* profile, the codecs are the Encoding of its video and of its audio
\* configuration, the H264 profile is its H264Profile.  No field comes from a
\* later profile, also when the first profile lacks the element.
C31_FieldsFromFirstProfile ==
    [][ ( /\ stage = 3
          /\ phase = "received"
          /\ stage' = 4
          /\ WellFormed(send_ret.val.body) )
        => LET first == FirstProfile(send_ret.val.body)
               p     == cam'.profiles
           IN  /\ p.video_dim \in
                     { Some(<<ParseU32(w)[1], ParseU32(h)[1]>>) :
                         w \in { t \in TextsUnder(first, "Width", None) : ParseU32(t) # None },
                         h \in { t \in TextsUnder(first, "Height", None) : ParseU32(t) # None } }
               /\ p.video_codec \in
                     { Some(t) : t \in TextsUnder(first, "Encoding",
                                                  Some("VideoEncoderConfiguration")) }
               /\ p.audio_codec \in
                     { Some(t) : t \in TextsUnder(first, "Encoding",
                                                  Some("AudioEncoderConfiguration")) }
               /\ p.h264_profile \in
                     { Some(t) : t \in TextsUnder(first, "H264Profile", None) } ]_vars


\* C32: the video width and the video height of a camera are either both
\* present or both absent: the dimensions of the profiles sub-record are
\* absent, or one pair of two numbers, in every state of every build_all.
C32_DimensionsPaired ==
    LET video_dim == cam.profiles.video_dim
    IN  \/ video_dim = None
        \/ /\ Len(video_dim) = 1
           /\ Len(video_dim[1]) = 2
           /\ \A i \in 1..2 : ParseU32(video_dim[1][i]) = Some(video_dim[1][i])

\* build_all ended in stage 3 on a response with a Width and no Height, and
\* the camera has neither
C32_Witness ==
    /\ stage = 3
    /\ outcome = "Panic"
    /\ send_ret.val.body = ProfilesNoHeight
    /\ cam.profiles.video_dim = None


(***************************************************************************)
(* Properties of set_service_capabilities, checked under SpecCapabilities. *)
(***************************************************************************)
\* the attribute of each of the six event capabilities, its field and the
\* type of its value
CapabilityKeys ==
    << <<"WSPausableSubscriptionManagerInterfaceSupport", "pause_support", "bool">>,
       <<"WSPullPointSupport", "pull_point_supoort", "bool">>,
       <<"WSSubscriptionPolicySupport", "sub_policy_support", "bool">>,
       <<"MaxNotificationProducers", "max_notif_produce", "u8">>,
       <<"MaxPullPoints", "max_pull_points", "u8">>,
       <<"PersistentNotificationStorage", "persist_notif_store", "bool">> >>

\* the attributes of the Capabilities element of the body, <<>> if it has none
AttributesOf(body) ==
    LET at == SelectSeq(Indices(body),
                        LAMBDA i : /\ body[i].t = "StartElement"
                                   /\ body[i].name = "Capabilities")
    IN  IF at = <<>> THEN <<>> ELSE body[at[1]].attributes

\* the value of the capability with key k that the attributes give: None when
\* no attribute has that key
ValueOfKey(attributes, k) ==
    LET with_key == SelectSeq(attributes, LAMBDA a : a.name = CapabilityKeys[k][1])
    IN  IF with_key = <<>> THEN None
        ELSE IF CapabilityKeys[k][3] = "bool" THEN ParseBool(with_key[1].value)
        ELSE ParseU8(with_key[1].value)

\* C33: when set_service_capabilities has read a GetServiceCapabilities
\* response whose Capabilities element has attributes, it succeeds and each
\* of the six event capabilities whose key is among the attributes has that
\* key's value, whichever position the key has among them; the other fields
\* are absent; an attribute with another key changes nothing and does not
\* fail the stage.
C33_EveryKeyParsed ==
    ( /\ caps_ret.kind \notin {"Pending", "Err"}
      /\ AttributesOf(caps_response) # <<>> )
    => /\ caps_ret.kind = "Ok"
       /\ \A k \in 1..Len(CapabilityKeys) :
             caps_ret.val[CapabilityKeys[k][2]]
                 = ValueOfKey(AttributesOf(caps_response), k)


\* an XAddr that set_services classifies: it is not the device service and it
\* has the fragment of some field
Known(service) ==
    /\ ~Contains(service, "device_service")
    /\ \E field \in DOMAIN DefaultServices : Contains(service, Fragment(field))

\* C34: when stage 5 has parsed its response, an XAddr with none of the known
\* fragments and the XAddr of the device service are in no field and do not
\* fail the stage; every other XAddr is still classified: a field with its
\* fragment is populated.  The stage returns its record, so a build_all that
\* ends in this step ends by the missing or unparsable event URL only.
C34_UnknownServiceSkipped ==
    [][ ( /\ stage = 5
          /\ phase = "received"
          /\ ~(phase' = "idle" /\ build_err' = ErrBody) )
        => LET xaddrs == parse_soap(send_ret.val.body, "XAddr", None, FALSE, FALSE)
               known  == SelectSeq(xaddrs, Known)
           IN  /\ (phase' = "idle" /\ outcome' = "Panic") => cam'.services.event = None
               /\ (phase' = "idle" /\ outcome' = "Err") => build_err' = ErrUrlParse
               /\ \A field \in DOMAIN DefaultServices :
                     IsSome(cam'.services[field]) =>
                         cam'.services[field][1] \in Range(known)
               /\ \A i \in 1..Len(known) :
                     \E field \in DOMAIN DefaultServices :
                         /\ Contains(known[i], Fragment(field))
                         /\ IsSome(cam'.services[field]) ]_vars

\* stage 5 populated all seven fields from a list that also has the device
\* service and a service no arm knows, and build_all went on
C34_Witness ==
    /\ stage = 6
    /\ \A field \in DOMAIN DefaultServices : IsSome(cam.services[field])
    /\ calls[5].request = "GetServices"
    /\ Len(calls) = 6


(***************************************************************************)
(* Properties of discover on replies with several addresses, checked under *)
(* SpecDiscover.                                                           *)
(***************************************************************************)
\* C35: the control URL of the Device that discover makes of a reply is the
\* first of the whitespace-separated URLs of the reply's XAddrs text.
C35_FirstXAddrIsControlUrl ==
    [][ ( /\ Len(heard') = Len(heard) + 1
          /\ Len(devices_found') = Len(devices_found) + 1 )
        => LET body   == heard'[Len(heard')].body
               xaddrs == parse_soap(body, "XAddrs", None, TRUE, FALSE)
           IN  devices_found'[Len(devices_found')].url_onvif
                   = split_space(xaddrs[1])[1] ]_vars


\* C36: a reply is a duplicate only when a reply from exactly the same sender
\* address was accepted before: every usable reply from an address that
\* differs from all addresses heard before it produces a Device, also when
\* the address is a substring of one heard before.
C36_DuplicateIsSameAddress ==
    [][ ( /\ Len(heard') = Len(heard) + 1
          /\ ~Unusable(heard'[Len(heard')].body)
          /\ \A i \in 1..Len(heard) : heard[i].addr # heard'[Len(heard')].addr )
        => /\ Len(devices_found') = Len(devices_found) + 1
           /\ sources' = Append(sources, heard'[Len(heard')].addr) ]_vars


\* C37: every receive attempt of discover, whether a datagram arrived (also
\* the reply of a device already accepted), the receive failed or the timeout
\* elapsed, uses up one of the 2 x 5 attempts; a call returns its list only
\* after both rounds ran to their last attempt, whether or not devices were
\* found; and the list never has more devices than attempts were made, so
\* never more than 10.
C37_EveryAttemptCounts ==
    /\ [][ (d_pc = "Collecting" /\ discover_vars' # discover_vars)
            => /\ recvs' = recvs + 1
               /\ try_recv' = try_recv + 1
               /\ Len(heard') <= Len(heard) + 1
               /\ Len(devices_found') <= Len(devices_found) + 1 ]_vars
    /\ [](d_pc = "Done" => (probes = SendRounds /\ recvs = SendRounds * RecvTries))
    /\ [](d_ret.kind = "Ok" => d_pc = "Done")
    /\ [](Len(devices_found) <= Len(heard) /\ Len(heard) <= recvs /\ recvs <= 10)

\* a call returned one device after both rounds; two of its attempts were
\* used up by further replies of that device
C37_Witness ==
    /\ d_pc = "Done"
    /\ d_ret = Ok(devices_found)
    /\ Len(devices_found) = 1
    /\ Len(heard) = 3
    /\ \A i \in 1..3 : heard[i].addr = sources[1]
    /\ recvs = 10


(***************************************************************************)
(* Whose attributes parse_soap returns, checked under SpecParse.           *)
(***************************************************************************)
\* C38: in attribute mode the strings parse_soap returns are the attributes
\* of one element whose local name is the target; when the target element it
\* reached has no attributes it never returns the attributes of another
\* element, such as a child of the target.
C38_OnlyTargetAttributes ==
    ( /\ parsed.kind = "Ok"
      /\ arg_attributes
      /\ parsed.val # <<>> )
    => \E i \in 1..Len(arg_response) :
          /\ arg_response[i].t = "StartElement"
          /\ arg_response[i].name = arg_element
          /\ parsed.val = [k \in 1..Len(arg_response[i].attributes) |->
                              FormatAttribute(arg_response[i].attributes[k])]


(***************************************************************************)
(* What a failed build_all leaves on the camera, checked under Spec.       *)
(***************************************************************************)
\* the sub-record that stage j assigns
SubRecord(c, j) ==
    CASE j = 1 -> c.capabilities
      [] j = 2 -> c.device_info
      [] j = 3 -> c.profiles
      [] j = 4 -> c.stream
      [] j = 5 -> c.services

\* a build_all returned the error of the send call or of the body of stage k
StageError(k) ==
    /\ phase = "idle"
    /\ outcome = "Err"
    /\ build_err # ErrUrlParse
    /\ stage = k

\* C39: build_all is not all-or-nothing.  When stage k of the five stages
\* returns an error, the sub-records of the stages 1..k-1 keep the values
\* fetched in this call and the sub-records of stage k and the later stages
\* keep the values they had before the call: on a new camera these are the
\* defaults, and in general the call changes nothing when it starts, the
\* completion of a stage replaces that stage's sub-record by the value parsed
\* from its response and leaves the others, and the step in which a stage
\* returns its error changes nothing.
C39_PartialBuildKept ==
    /\ [](\A k \in 1..5 :
            (builds = 1 /\ StageError(k))
            => /\ \A j \in 1..(k - 1) :
                     SubRecord(cam, j) # SubRecord(NewCamera(cam.base), j)
               /\ \A j \in k..5 :
                     SubRecord(cam, j) = SubRecord(NewCamera(cam.base), j))
    /\ [][ /\ builds' # builds => cam' = cam
           /\ (phase # "idle" /\ phase' = "idle" /\ outcome' = "Err"
               /\ build_err' # ErrUrlParse)
              => cam' = cam
           /\ cam' # cam
              => /\ phase = "received"
                 /\ stage \in 1..5
                 /\ \E log_info \in BOOLEAN :
                       SubRecord(cam', stage)
                           = stage_fn(stage, send_ret.val.body, log_info).val
                 /\ \A j \in (1..5) \ {stage} :
                       SubRecord(cam', j) = SubRecord(cam, j)
                 /\ cam'.base = cam.base
                 /\ cam'.event_props = cam.event_props ]_vars

\* the second build_all on a camera returned an error in stage 2: the
\* capabilities are set, and the device information, the profiles and the
\* stream URI are those the first call had stored
C39_Witness ==
    /\ builds = 2
    /\ StageError(2)
    /\ cam.capabilities # DefaultCapabilities
    /\ cam.device_info # DefaultDeviceInfo
    /\ cam.profiles # DefaultProfiles
    /\ IsSome(cam.stream.uri)


(***************************************************************************)
(* The precedence of the rules of set_services, checked under Spec.        *)
(***************************************************************************)
\* the fragments set_services tests, in the order of its rules, and the field
\* each rule assigns ("" for the device service, which is skipped)
Rules ==
    << <<"device_service", "">>, <<"analytics", "analytics">>,
       <<"event", "event">>, <<"deviceIO", "io">>, <<"imaging", "imaging">>,
       <<"media_service", "media">>, <<"media2", "media2">>, <<"ptz", "ptz">> >>

\* the field of the first rule whose fragment the XAddr contains, "" if that
\* is the rule of the device service or no rule fits
FieldOf(service) ==
    LET fits == SelectSeq([i \in 1..Len(Rules) |-> i],
                          LAMBDA i : Contains(service, Rules[i][1]))
    IN  IF fits = <<>> THEN "" ELSE Rules[fits[1]][2]

\* C40: when stage 5 has parsed its response, each XAddr went to at most one
\* field, that of the first rule, in the order device_service (skipped),
\* analytics, event, deviceIO, imaging, media_service, media2, ptz, whose
\* fragment it contains; and each field holds the last XAddr of the response
\* that went to it, or nothing when none did.
C40_FirstRuleLastXAddr ==
    [][ ( /\ stage = 5
          /\ phase = "received"
          /\ ~(phase' = "idle" /\ build_err' = ErrBody) )
        => LET xaddrs == parse_soap(send_ret.val.body, "XAddr", None, FALSE, FALSE)
           IN  \A field \in DOMAIN DefaultServices :
                  LET mine == SelectSeq(xaddrs, LAMBDA s : FieldOf(s) = field)
                  IN  cam'.services[field]
                          = IF mine = <<>> THEN None ELSE Some(mine[Len(mine)]) ]_vars

\* stage 5 stored the record of a list in which an XAddr has device_service
\* and imaging, one has event and analytics, one has ptz and media2, and two
\* have event; build_all went on to the second event service
C40_Witness ==
    /\ stage = 6
    /\ cam.services = [analytics |-> Some("http://cam/onvif/event_analytics"),
                       event     |-> Some("http://cam/onvif/event2_service"),
                       io        |-> None,
                       imaging   |-> None,
                       media     |-> None,
                       media2    |-> Some("http://cam/onvif/ptz/media2"),
                       ptz       |-> None]
    /\ calls[6].url = "http://cam/onvif/event2_service"

====
